---- MODULE Spec2Model ----
(***************************************************************************)
(* mhist: per-session runtime (session.go), scrollback line ring           *)
(* (buffer.go) and wire codec (protocol.go).                               *)
(*                                                                         *)
(* Bytes are integers 0..255; a []byte is a sequence of bytes.  A nil      *)
(* slice returned to signal absence is the value Nil.                      *)
(***************************************************************************)
EXTENDS Integers, Sequences, FiniteSets, TLC

\* ------------------------------------------------------------------ bounds
LineCap == 2        \* capacity of the line ring in the model (NewScrollbackBuffer(10000))
RawCap == 3         \* capacity of the raw replay ring in the model (make([]byte, 65536))
MaxWrite == 3       \* longest chunk handed to one Write call
MaxWritten == 5     \* total bytes written to the line ring in one behaviour
MaxK == 3           \* largest from-end distance / absolute offset requested
MaxC == 3           \* largest count requested
MaxConns == 2       \* front-end connections that dial the endpoint
MaxPty == 2         \* total bytes the PTY produces in the session spec
MaxMsgs == 1        \* messages the front-ends send in the session spec
MaxReqs == 2        \* history requests the front-end sends in the history spec
MaxPayload == 3     \* longest payload handed to Encode in the round-trip spec
MaxFrames == 2      \* whole messages written to the stream in the codec spec
MaxFramePayload == 1 \* longest payload of a message on that stream
MaxStdin == 3       \* total bytes the front-end reads from stdin
MaxChunk == 2       \* longest chunk one stdin read delivers
MaxIn == 1          \* messages the session sends to the front-end
MaxBody == 6        \* longest parameter text of a mouse report in the mouse spec
MaxOffset == 7      \* largest history offset the key spec starts from
MaxWinch == 1       \* window-change signals the front-end handles
Rows == 2           \* terminal rows reported to the front-end

\* ------------------------------------------------------------ byte values
LF == 10
CR == 13
ESC == 27
Nil == <<-1>>       \* a nil []byte returned where the code reports absence

BufBytes == {LF, 97, 98}

\* ---------------------------------------------------------- client.go keys
CtrlA == 1          \* 0x01, the prefix key
CtrlS == 19         \* 0x13
KeyD == 100         \* 'd'
KeyS == 115         \* 's'
KeyBracket == 91    \* '['
KeyA == 97          \* 'a', a byte with no binding
scrollLines == 3
DefaultRows == 24
DefaultCols == 80

Min(a, b) == IF a < b THEN a ELSE b
Max(a, b) == IF a > b THEN a ELSE b

\* all sequences over S of length lo..hi
SeqsOf(S, lo, hi) == UNION {[1..n -> S] : n \in lo..hi}

\* ----------------------------------------------------------- protocol.go
MsgData == 1
MsgResize == 2
MsgDetach == 3
MsgKill == 4
MsgHistoryRequest == 5
MsgHistoryResponse == 6

\* binary.BigEndian.Uint32 of the four bytes p[i+1..i+4] (i is the Go offset);
\* defined for values below 2^31
Uint32(p, i) ==
    p[i + 1] * 16777216 + p[i + 2] * 65536 + p[i + 3] * 256 + p[i + 4]

\* PutUint32 storing the least significant byte first
PutUint32_LE(v) ==
    << v % 256, (v \div 256) % 256, (v \div 65536) % 256, (v \div 16777216) % 256 >>

\* binary.BigEndian.PutUint32
PutUint32(v) ==
    << (v \div 16777216) % 256, (v \div 65536) % 256, (v \div 256) % 256, v % 256 >>

Encode(msg) ==
    <<msg.Type>> \o PutUint32(Len(msg.Payload)) \o msg.Payload

\* Decode that returns whatever payload octets the stream still has
Decode_NoShort(r) ==
    IF Len(r) < 5
    THEN [ok |-> FALSE, msg |-> [Type |-> 0, Payload |-> <<>>], rest |-> <<>>]
    ELSE LET msgType == r[1]
             length == Min(Uint32(r, 1), Len(r) - 5)
         IN  [ok |-> TRUE,
              msg |-> [Type |-> msgType, Payload |-> SubSeq(r, 6, 5 + length)],
              rest |-> SubSeq(r, 6 + length, Len(r))]

\* Decode reads one message from the front of stream r.  The result is
\* [ok, msg, rest]: ok = FALSE is the error return (short read).
Decode(r) ==
    IF Len(r) < 5
    THEN [ok |-> FALSE, msg |-> [Type |-> 0, Payload |-> <<>>], rest |-> <<>>]
    ELSE LET msgType == r[1]
             length == Uint32(r, 1)
         IN  IF Len(r) < 5 + length
             THEN [ok |-> FALSE, msg |-> [Type |-> 0, Payload |-> <<>>], rest |-> <<>>]
             ELSE [ok |-> TRUE,
                   msg |-> [Type |-> msgType, Payload |-> SubSeq(r, 6, 5 + length)],
                   rest |-> SubSeq(r, 6 + length, Len(r))]

\* ------------------------------------------------------------- buffer.go
NewScrollbackBuffer(capacity) ==
    [lines |-> [i \in 0..(capacity - 1) |-> Nil],
     head |-> 0, count |-> 0, cap |-> capacity, partial |-> <<>>]

\* bytes.IndexByte: 0-based index of the first c in data, -1 if none
IndexByte(data, c) ==
    IF \E i \in 1..Len(data) : data[i] = c
    THEN (CHOOSE i \in 1..Len(data) :
            data[i] = c /\ \A j \in 1..(i - 1) : data[j] # c) - 1
    ELSE -1

addLine(b, line) ==
    [b EXCEPT !.lines = [b.lines EXCEPT ![b.head] = line],
              !.head = (b.head + 1) % b.cap,
              !.count = IF b.count < b.cap THEN b.count + 1 ELSE b.count]

RECURSIVE WriteLoop_NoCopy(_, _)
\* WriteLoop with the copy into the new partial slice left out
WriteLoop_NoCopy(b, data) ==
    IF Len(data) = 0 THEN b
    ELSE LET idx == IndexByte(data, LF)
         IN  IF idx = -1
             THEN [b EXCEPT !.partial = [i \in 1..Len(data) |-> 0]]
             ELSE WriteLoop_NoCopy(addLine(b, SubSeq(data, 1, idx)),
                                   SubSeq(data, idx + 2, Len(data)))

RECURSIVE WriteLoop(_, _)
WriteLoop(b, data) ==
    IF Len(data) = 0 THEN b
    ELSE LET idx == IndexByte(data, LF)
         IN  IF idx = -1
             THEN [b EXCEPT !.partial = data]
             ELSE WriteLoop(addLine(b, SubSeq(data, 1, idx)),
                            SubSeq(data, idx + 2, Len(data)))

\* Write that does not prepend the held partial
Write_DropPartial(b, data) ==
    WriteLoop([b EXCEPT !.partial = <<>>], data)

Write(b, data) ==
    IF Len(b.partial) > 0
    THEN WriteLoop([b EXCEPT !.partial = <<>>], b.partial \o data)
    ELSE WriteLoop(b, data)

Lines(b) == b.count

\* GetLine that counts from head instead of from the oldest line
GetLine_FromHead(b, index) ==
    IF index < 0 \/ index >= b.count
    THEN Nil
    ELSE b.lines[(b.head + index) % b.cap]

GetLine(b, index) ==
    IF index < 0 \/ index >= b.count
    THEN Nil
    ELSE b.lines[(b.head - b.count + index + b.cap) % b.cap]

GetPartial(b) == IF Len(b.partial) = 0 THEN Nil ELSE b.partial

\* GetRange without the truncation at the end of the buffer
GetRange_NoTrunc(b, start, count) ==
    LET s == IF start < 0 THEN 0 ELSE start
    IN  IF s >= b.count THEN <<>>
        ELSE [i \in 1..count |-> GetLine(b, s + i - 1)]

\* GetRange returns a sequence of lines; the nil result is the empty sequence
GetRange(b, start, count) ==
    LET s == IF start < 0 THEN 0 ELSE start
    IN  IF s >= b.count THEN <<>>
        ELSE LET e == IF s + count > b.count THEN b.count ELSE s + count
             IN  [i \in 1..(e - s) |-> GetLine(b, s + i - 1)]

\* ------------------------------------------- session.go: history service
RECURSIVE JoinLines(_, _)
\* the loop of handleHistoryRequest: lines[i..] joined by CR LF
JoinLines(lines, i) ==
    IF i > Len(lines) THEN <<>>
    ELSE lines[i] \o (IF i < Len(lines) THEN <<CR, LF>> ELSE <<>>)
                  \o JoinLines(lines, i + 1)

\* handleHistoryRequest whose from-end start leaves out the count
handleHistoryRequest_NoCount(b, payload) ==
    IF Len(payload) < 8 THEN <<>>
    ELSE LET count == Uint32(payload, 4)
             totalLines == Lines(b)
             start == IF payload[1] >= 128
                      THEN LET fromEnd == Uint32([payload EXCEPT ![1] = @ % 128], 0)
                           IN  Max(totalLines - fromEnd, 0)
                      ELSE Uint32(payload, 0)
             lines == GetRange(b, start, count)
             result == PutUint32(start) \o PutUint32(totalLines) \o JoinLines(lines, 1)
         IN  Encode([Type |-> MsgHistoryResponse, Payload |-> result])

\* the bytes handleHistoryRequest writes to conn (none for a short payload)
handleHistoryRequest(b, payload) ==
    IF Len(payload) < 8 THEN <<>>
    ELSE LET count == Uint32(payload, 4)
             totalLines == Lines(b)
             start == IF payload[1] >= 128
                      THEN LET fromEnd == Uint32([payload EXCEPT ![1] = @ % 128], 0)
                           IN  Max(totalLines - fromEnd - count, 0)
                      ELSE Uint32(payload, 0)
             lines == GetRange(b, start, count)
             result == PutUint32(start) \o PutUint32(totalLines) \o JoinLines(lines, 1)
         IN  Encode([Type |-> MsgHistoryResponse, Payload |-> result])


\* ------------------------------------------- session.go: raw replay ring
\* the ring is the record [rawBuf, rawHead, rawLen] of the Session fields
NewRaw(capacity) ==
    [rawBuf |-> [i \in 0..(capacity - 1) |-> 0], rawHead |-> 0, rawLen |-> 0]

\* one iteration of the append loop of readPTY
AppendRawByte(r, byte) ==
    LET cap == Cardinality(DOMAIN r.rawBuf)
    IN  [rawBuf |-> [r.rawBuf EXCEPT ![r.rawHead] = byte],
         rawHead |-> (r.rawHead + 1) % cap,
         rawLen |-> IF r.rawLen < cap THEN r.rawLen + 1 ELSE r.rawLen]

RECURSIVE AppendRaw(_, _)
\* the whole append loop of readPTY for one chunk
AppendRaw(r, data) ==
    IF Len(data) = 0 THEN r
    ELSE AppendRaw(AppendRawByte(r, data[1]), SubSeq(data, 2, Len(data)))

\* startPos taken to be the write position
StartPos_Head(r) == r.rawHead

\* sendRedraw: startPos
StartPos(r) ==
    LET cap == Cardinality(DOMAIN r.rawBuf)
    IN  (r.rawHead - r.rawLen + cap) % cap

\* sendRedraw: the byte copied into raw[i] (i is the Go index)
RawAt(r, startPos, i) ==
    LET cap == Cardinality(DOMAIN r.rawBuf)
    IN  r.rawBuf[(startPos + i) % cap]

\* sendRedraw: the extracted ring content when nothing runs concurrently
Snapshot(r) == [i \in 1..r.rawLen |-> RawAt(r, StartPos(r), i - 1)]

ClearHome == <<ESC, 91, 50, 74, ESC, 91, 72>>       \* "\x1b[2J\x1b[H"

\* sendRedraw: the bytes written to conn for the extracted content raw
RedrawBytes(raw) == Encode([Type |-> MsgData, Payload |-> ClearHome \o raw])

\* sendRedraw with nothing running concurrently: the bytes written to conn
sendRedraw(r) == IF r.rawLen = 0 THEN <<>> ELSE RedrawBytes(Snapshot(r))

\* "session already attached\r\n"
RejectText ==
    <<115, 101, 115, 115, 105, 111, 110, 32, 97, 108, 114, 101, 97, 100, 121,
      32, 97, 116, 116, 97, 99, 104, 101, 100, CR, LF>>

RejectBytes == Encode([Type |-> MsgData, Payload |-> RejectText])

\* ------------------------------------------------------------------ state
VARIABLES
    buffer,         \* Session.buffer (the ScrollbackBuffer)
    rawBuf,         \* Session.rawBuf
    rawHead,        \* Session.rawHead
    rawLen,         \* Session.rawLen
    client,         \* Session.client: 0 is nil, otherwise the connection
    lastRows,       \* Session.lastRows
    winsize,        \* the window size of the PTY: <<rows, cols>>
    shell,          \* the child shell: "running" or "exited"
    listenerClosed, \* Session.listener has been closed
    ptmxClosed,     \* Session.ptmx has been closed
    ptyIn,          \* bytes written to the PTY master by the session
    ptyPc,          \* readPTY: "read", "write", "raw", "done"
    ptyData,        \* readPTY: data
    ptyI,           \* readPTY: position in the raw append loop
    ptyDone,        \* Run: the ptyDone channel is closed
    accPc,          \* acceptClients: "accept", "lock", "reject", "redraw",
                    \*                "copy", "exit", "panic"
    accConn,        \* acceptClients: conn
    accRaw,         \* sendRedraw: raw
    accStart,       \* sendRedraw: startPos
    accI,           \* sendRedraw: i
    connSt,         \* per connection: "none", "dialed", "open", "closed"
    peer,           \* per connection: the front-end process, "alive" or "gone"
    sent,           \* per connection: bytes the session wrote to it
    hPc,            \* per connection: handleClient, "none", "run", "exited"
    nmsg,           \* messages received from front-ends so far
    runPc,          \* Run: "wait", "cleanup", "close", "reap", "exited"
    written,        \* every byte handed to buffer.Write so far, in order
    rejected,       \* connections the acceptor found the slot occupied for
    attachB,        \* per connection: the ring content when it was registered
    kcmd,           \* connections opened by the kill command (cmdKill)
    kpend,          \* connections holding a KILL message not yet read
    killRecv,       \* a reader has received a KILL message
    wfail,          \* front-end connections on which a write of the session
                    \* (live DATA, redraw, HISTORY_RESPONSE) has failed
    pwfail,         \* a write of a DATA payload to the PTY master has failed
    sockFile,       \* the endpoint socket file exists
    infoFile,       \* the metadata file exists
    nsPc,           \* NewSession: the step it is at; "ok" and "failed" once returned
    nsShellPath,    \* NewSession: the shell it runs
    nsDir,          \* NewSession: the endpoint directory, socketDir()
    nsPtmx,         \* NewSession: the PTY master, "none", "open" or "closed"
    nsShell,        \* NewSession: the child shell, "none", "running" or "exited"
    nsKilled,       \* NewSession: cmd.Process.Kill() was called
    nsListener,     \* NewSession: the listener, "none", "open" or "closed"
    nsSock,         \* NewSession: the socket file exists
    nsInfo,         \* NewSession: the metadata file exists
    nsErr,          \* NewSession: the error it returns, "" for none
    kPre,           \* key spec: the Client before one iteration of relayStdin's loop
    kPa,            \* key spec: prefixActive before it
    kKey,           \* key spec: the bytes at buf[i:n]
    kPost,          \* key spec: what the iteration made of them
    mData,          \* mouse spec: the bytes handed to ParseSGRMouse
    mRes,           \* mouse spec: what it returned
    hprev,          \* the buffer as it was before the latest call
    hop,            \* the latest scrollback call: "none", "write", "history",
                    \*                              "redraw", "range"
    harg,           \* its argument (the chunk written / the request payload /
                    \* <<start, count>>)
    hresp,          \* the bytes the latest history request or redraw put on
                    \* the connection / the lines the latest GetRange returned
    rtMsg,          \* the message last handed to Encode
    rtBuf,          \* Encode: buf, the bytes it returned (empty: no call yet)
    rtOut,          \* what Decode returned for those bytes
    stream,         \* the bytes put on one byte stream so far
    streamMsgs,     \* the messages encoded onto it, in order
    streamEnd,      \* the stream has ended (its writer closed it)
    readPos,        \* bytes of the stream its reader has consumed
    decoded,        \* the messages the reader's Decode calls returned, in order
    decodeErr,      \* a Decode call of the reader returned an error
    cl,             \* the Client: historyMode, historyOffset, termRows, termCols,
                    \* choosingSession, deletingSession, detached; conn is every
                    \* byte handed to c.conn.Write, stdout every write to the
                    \* terminal, raw tells that the terminal is in raw mode
    prefixActive,   \* relayStdin: prefixActive
    stdinBuf,       \* relayStdin: buf
    stdinI,         \* relayStdin: i
    stdinPc,        \* relayStdin: "none", "select", "bytes", "exit"
    sockPc,         \* relaySocket: "none", "decode", "switch", "write", "exit"
    sockMsg,        \* relaySocket: msg
    clDone,         \* Client.done is closed
    clRunPc,        \* Client.Run: "start", "wait", "returned"
    clConnClosed,   \* the front-end has closed c.conn
    sessEnd,        \* the session's end of the stream is closed
    nStdin,         \* bytes read from stdin so far
    nIn,            \* messages received from the session so far
    nWinch          \* window-change signals handled so far

ringVars == <<buffer, rawBuf, rawHead, rawLen, written>>
histVars == <<hprev, hop, harg, hresp>>
ptyVars == <<ptyPc, ptyData, ptyI, ptyDone>>
accVars == <<accPc, accConn, accRaw, accStart, accI>>
connVars == <<connSt, peer, sent, hPc, nmsg>>
sessVars == <<client, lastRows, winsize, shell, listenerClosed, ptmxClosed, ptyIn>>
runVars == <<runPc>>
ghostVars == <<rejected, attachB>>
killVars == <<kcmd, kpend, killRecv>>
fileVars == <<sockFile, infoFile>>
errVars == <<wfail, pwfail>>
codecVars == <<rtMsg, rtBuf, rtOut, stream, streamMsgs, streamEnd, readPos, decoded,
               decodeErr>>
feVars == <<cl, prefixActive, stdinBuf, stdinI, stdinPc, sockPc, sockMsg, clDone,
            clRunPc, clConnClosed, sessEnd, nStdin, nIn, nWinch>>
startVars == <<nsPc, nsShellPath, nsDir, nsPtmx, nsShell, nsKilled, nsListener,
               nsSock, nsInfo, nsErr>>
keyVars == <<kPre, kPa, kKey, kPost>>
mouseVars == <<mData, mRes>>
sideVars == <<startVars, keyVars, mouseVars>>
vars == <<ringVars, histVars, ptyVars, accVars, connVars, sessVars, runVars, ghostVars,
          killVars, fileVars, errVars, codecVars, feVars, sideVars>>

Conns == 1..MaxConns
PtyChunks == {<<97>>, <<98, LF>>}

\* the raw replay ring of the session
Ring == [rawBuf |-> rawBuf, rawHead |-> rawHead, rawLen |-> rawLen]

\* NewSession, before Run starts its goroutines
Init ==
    /\ buffer = NewScrollbackBuffer(LineCap)
    /\ rawBuf = NewRaw(RawCap).rawBuf
    /\ rawHead = 0
    /\ rawLen = 0
    /\ client = 0
    /\ lastRows = 0
    /\ winsize = <<0, 0>>
    /\ shell = "running"
    /\ listenerClosed = FALSE
    /\ ptmxClosed = FALSE
    /\ ptyIn = <<>>
    /\ ptyPc = "read"
    /\ ptyData = <<>>
    /\ ptyI = 0
    /\ ptyDone = FALSE
    /\ accPc = "accept"
    /\ accConn = 0
    /\ accRaw = <<>>
    /\ accStart = 0
    /\ accI = 0
    /\ connSt = [c \in Conns |-> "none"]
    /\ peer = [c \in Conns |-> "alive"]
    /\ sent = [c \in Conns |-> <<>>]
    /\ hPc = [c \in Conns |-> "none"]
    /\ nmsg = 0
    /\ runPc = "wait"
    /\ written = <<>>
    /\ rejected = {}
    /\ attachB = [c \in Conns |-> <<>>]
    /\ kcmd = {}
    /\ kpend = {}
    /\ killRecv = FALSE
    /\ wfail = {}
    /\ pwfail = FALSE
    /\ nsPc = "new"
    /\ nsShellPath = ""
    /\ nsDir = <<>>
    /\ nsPtmx = "none"
    /\ nsShell = "none"
    /\ nsKilled = FALSE
    /\ nsListener = "none"
    /\ nsSock = FALSE
    /\ nsInfo = FALSE
    /\ nsErr = ""
    /\ kPre = [historyMode |-> FALSE, historyOffset |-> 0, termRows |-> 0,
               termCols |-> 0, choosingSession |-> FALSE, deletingSession |-> FALSE,
               detached |-> FALSE, raw |-> FALSE, conn |-> <<>>, stdout |-> <<>>]
    /\ kPa = FALSE
    /\ kKey = <<>>
    /\ mData = <<>>
    /\ mRes = [ok |-> FALSE, consumed |-> 0,
               ev |-> [Button |-> 0, Col |-> 0, Row |-> 0, Press |-> FALSE]]
    /\ kPost = [c |-> kPre, pa |-> FALSE, ret |-> FALSE, sig |-> FALSE, n |-> 0]
    /\ sockFile = TRUE
    /\ infoFile = TRUE
    /\ hprev = NewScrollbackBuffer(LineCap)
    /\ hop = "none"
    /\ harg = <<>>
    /\ hresp = <<>>
    /\ rtMsg = [Type |-> 0, Payload |-> <<>>]
    /\ rtBuf = <<>>
    /\ rtOut = [ok |-> FALSE, msg |-> [Type |-> 0, Payload |-> <<>>], rest |-> <<>>]
    /\ stream = <<>>
    /\ streamMsgs = <<>>
    /\ streamEnd = FALSE
    /\ readPos = 0
    /\ decoded = <<>>
    /\ decodeErr = FALSE
    /\ cl = [historyMode |-> FALSE, historyOffset |-> 0, termRows |-> 0,
             termCols |-> 0, choosingSession |-> FALSE, deletingSession |-> FALSE,
             detached |-> FALSE, raw |-> FALSE, conn |-> <<>>, stdout |-> <<>>]
    /\ prefixActive = FALSE
    /\ stdinBuf = <<>>
    /\ stdinI = 0
    /\ stdinPc = "none"
    /\ sockPc = "none"
    /\ sockMsg = [Type |-> 0, Payload |-> <<>>]
    /\ clDone = FALSE
    /\ clRunPc = "start"
    /\ clConnClosed = FALSE
    /\ sessEnd = FALSE
    /\ nStdin = 0
    /\ nIn = 0
    /\ nWinch = 0

\* ------------------------------------------------ scrollback structures
WriteChunks == SeqsOf(BufBytes, 1, MaxWrite)

HistoryPayloads ==
    {<<hi, 0, 0, k, 0, 0, 0, c>> : hi \in {0, 128}, k \in 0..MaxK, c \in 0..MaxC}
    \cup {<<128, 0, 0, 1, 0, 0, 0>>}

\* readPTY, lines 164-174, for one chunk with nothing running concurrently:
\* the chunk goes to the line ring and to the raw replay ring
BufWrite ==
    \E w \in WriteChunks :
        /\ Len(written) + Len(w) <= MaxWritten
        /\ buffer' = Write(buffer, w)
        /\ rawBuf' = AppendRaw(Ring, w).rawBuf
        /\ rawHead' = AppendRaw(Ring, w).rawHead
        /\ rawLen' = AppendRaw(Ring, w).rawLen
        /\ written' = written \o w
        /\ hprev' = buffer
        /\ hop' = "write"
        /\ harg' = w
        /\ hresp' = <<>>
        /\ UNCHANGED <<ptyVars, accVars, connVars, sessVars, runVars, ghostVars>>
        /\ UNCHANGED <<killVars, fileVars, errVars, codecVars, feVars, sideVars>>

\* handleHistoryRequest for one request payload
BufHistory ==
    \E p \in HistoryPayloads :
        /\ hresp' = handleHistoryRequest(buffer, p)
        /\ hprev' = buffer
        /\ hop' = "history"
        /\ harg' = p
        /\ UNCHANGED <<ringVars, ptyVars, accVars, connVars, sessVars, runVars, ghostVars>>
        /\ UNCHANGED <<killVars, fileVars, errVars, codecVars, feVars, sideVars>>

\* sendRedraw for a connection that attaches between two PTY chunks
BufRedraw ==
    /\ hresp' = sendRedraw(Ring)
    /\ hprev' = buffer
    /\ hop' = "redraw"
    /\ harg' = <<>>
    /\ UNCHANGED <<ringVars, ptyVars, accVars, connVars, sessVars, runVars, ghostVars>>
    /\ UNCHANGED <<killVars, fileVars, errVars, codecVars, feVars, sideVars>>

RangeStarts == (0 - MaxK)..MaxK
RangeCounts == 0..MaxC

\* buffer.GetRange(start, count) called on the line ring as it stands
BufRange ==
    \E start \in RangeStarts, count \in RangeCounts :
        /\ hresp' = GetRange(buffer, start, count)
        /\ hprev' = buffer
        /\ hop' = "range"
        /\ harg' = <<start, count>>
        /\ UNCHANGED <<ringVars, ptyVars, accVars, connVars, sessVars, runVars, ghostVars>>
        /\ UNCHANGED <<killVars, fileVars, errVars, codecVars, feVars, sideVars>>

NextBuf == BufWrite \/ BufHistory \/ BufRedraw \/ BufRange

SpecBuf == Init /\ [][NextBuf]_vars

\* ------------------------------------------------------- protocol codec
sessionVars == <<ringVars, histVars, ptyVars, accVars, connVars, sessVars, runVars,
                 ghostVars, killVars, fileVars, errVars>>

RoundKinds ==
    {0, MsgData, MsgResize, MsgDetach, MsgKill, MsgHistoryRequest, MsgHistoryResponse,
     255}
RoundBytes == {0, 1, 255}
RoundMsgs ==
    {[Type |-> k, Payload |-> p] :
        k \in RoundKinds, p \in SeqsOf(RoundBytes, 0, MaxPayload)}

\* Encode(msg) followed by Decode of the bytes it returned
CodecRoundTrip ==
    \E m \in RoundMsgs :
        /\ rtMsg' = m
        /\ rtBuf' = Encode(m)
        /\ rtOut' = Decode(Encode(m))
        /\ UNCHANGED <<stream, streamMsgs, streamEnd, readPos, decoded, decodeErr>>
        /\ UNCHANGED <<sessionVars, feVars, sideVars>>

NextRound == CodecRoundTrip

SpecRound == Init /\ [][NextRound]_vars

StreamKinds == {MsgData, MsgDetach, MsgHistoryResponse}
StreamBytes == {0, 255}
StreamMsgs ==
    {[Type |-> k, Payload |-> p] :
        k \in StreamKinds, p \in SeqsOf(StreamBytes, 0, MaxFramePayload)}

\* a writer puts one encoded message on the stream: conn.Write(Encode(msg))
StreamWrite ==
    /\ ~streamEnd /\ Len(streamMsgs) < MaxFrames
    /\ \E m \in StreamMsgs :
        /\ stream' = stream \o Encode(m)
        /\ streamMsgs' = Append(streamMsgs, m)
    /\ UNCHANGED <<rtMsg, rtBuf, rtOut, streamEnd, readPos, decoded, decodeErr>>
    /\ UNCHANGED <<sessionVars, feVars, sideVars>>

\* the stream ends after a strict prefix (possibly empty) of one more encoding
StreamClose ==
    /\ ~streamEnd
    /\ \E m \in StreamMsgs :
        \E j \in 0..(Len(Encode(m)) - 1) :
            stream' = stream \o SubSeq(Encode(m), 1, j)
    /\ streamEnd' = TRUE
    /\ UNCHANGED <<rtMsg, rtBuf, rtOut, streamMsgs, readPos, decoded, decodeErr>>
    /\ UNCHANGED <<sessionVars, feVars, sideVars>>

\* the reader calls Decode on the stream: io.ReadFull waits for the octets
\* it needs and fails only when the stream ends before they have arrived
StreamDecode ==
    /\ ~decodeErr
    /\ LET d == Decode(SubSeq(stream, readPos + 1, Len(stream)))
       IN  IF d.ok
           THEN /\ decoded' = Append(decoded, d.msg)
                /\ readPos' = Len(stream) - Len(d.rest)
                /\ UNCHANGED decodeErr
           ELSE /\ streamEnd
                /\ decodeErr' = TRUE
                /\ readPos' = Len(stream)
                /\ UNCHANGED decoded
    /\ UNCHANGED <<rtMsg, rtBuf, rtOut, stream, streamMsgs, streamEnd>>
    /\ UNCHANGED <<sessionVars, feVars, sideVars>>

NextCodec == StreamWrite \/ StreamClose \/ StreamDecode

SpecCodec == Init /\ [][NextCodec]_vars

\* ------------------------------------------------- client.go: front-end
\* binary.BigEndian.PutUint16
PutUint16(v) == << (v \div 256) % 256, v % 256 >>

\* c.conn.Write(Encode(msg)); the front-end ignores the result
ClientSend(c, type, payload) ==
    [c EXCEPT !.conn = @ \o Encode([Type |-> type, Payload |-> payload])]

\* one write to the terminal
TermWrite(c, kind, payload, indicator) ==
    [c EXCEPT !.stdout =
        Append(@, [kind |-> kind, payload |-> payload, indicator |-> indicator])]

\* the request payload: uint32(0x80000000 | offset), then uint32(rows), with
\* 24 rows when termRows <= 0
FromEndPayload(c, offset) ==
    LET rows == IF c.termRows <= 0 THEN DefaultRows ELSE c.termRows
    IN  [PutUint32(offset) EXCEPT ![1] = 128 + (@ % 128)] \o PutUint32(rows)

requestHistory(c) ==
    ClientSend(c, MsgHistoryRequest, FromEndPayload(c, c.historyOffset))

\* exitHistoryMode that keeps the offset
exitHistoryMode_KeepOffset(c) ==
    ClientSend([c EXCEPT !.historyMode = FALSE],
               MsgHistoryRequest, FromEndPayload(c, 0))

exitHistoryMode(c) ==
    ClientSend([c EXCEPT !.historyMode = FALSE, !.historyOffset = 0],
               MsgHistoryRequest, FromEndPayload(c, 0))

sendRedrawRequest(c) ==
    ClientSend(c, MsgHistoryRequest, FromEndPayload(c, 0))

sendResize(c) ==
    ClientSend(c, MsgResize, PutUint16(c.termRows) \o PutUint16(c.termCols))

showSessionPicker(c) ==
    TermWrite([c EXCEPT !.choosingSession = TRUE], "picker", <<>>, FALSE)

\* handleSessionChoice for a byte that is none of n, N, q, ESC and indexes no
\* entry of sessionChoices; sig tells that signalDone was called
handleSessionChoice(c, b) ==
    IF c.deletingSession
    THEN [c |-> showSessionPicker([c EXCEPT !.deletingSession = FALSE]),
          sig |-> FALSE]
    ELSE IF b = KeyD
    THEN [c |-> TermWrite([c EXCEPT !.choosingSession = TRUE,
                                    !.deletingSession = TRUE],
                          "delete", <<>>, FALSE),
          sig |-> FALSE]
    ELSE [c |-> sendRedrawRequest([c EXCEPT !.choosingSession = FALSE]),
          sig |-> FALSE]

\* the prefix switch with a default case that forwards the byte
prefixCommand_ForwardUnknown(c, b) ==
    CASE b = KeyD ->
            [c |-> ClientSend([c EXCEPT !.detached = TRUE], MsgDetach, <<>>),
             ret |-> TRUE]
      [] b = KeyS ->
            [c |-> showSessionPicker(c), ret |-> FALSE]
      [] b = KeyBracket ->
            [c |-> IF ~c.historyMode
                   THEN requestHistory([c EXCEPT !.historyMode = TRUE,
                                                 !.historyOffset = scrollLines])
                   ELSE c,
             ret |-> FALSE]
      [] b = CtrlA ->
            [c |-> ClientSend(IF c.historyMode THEN exitHistoryMode(c) ELSE c,
                              MsgData, <<CtrlA>>),
             ret |-> FALSE]
      [] OTHER -> [c |-> ClientSend(c, MsgData, <<b>>), ret |-> FALSE]

\* the prefix switch with a 'd' case that neither flags the detach nor returns
prefixCommand_NoDetach(c, b) ==
    CASE b = KeyD ->
            [c |-> ClientSend(c, MsgDetach, <<>>), ret |-> FALSE]
      [] b = KeyS ->
            [c |-> showSessionPicker(c), ret |-> FALSE]
      [] b = KeyBracket ->
            [c |-> IF ~c.historyMode
                   THEN requestHistory([c EXCEPT !.historyMode = TRUE,
                                                 !.historyOffset = scrollLines])
                   ELSE c,
             ret |-> FALSE]
      [] b = CtrlA ->
            [c |-> ClientSend(IF c.historyMode THEN exitHistoryMode(c) ELSE c,
                              MsgData, <<CtrlA>>),
             ret |-> FALSE]
      [] OTHER -> [c |-> c, ret |-> FALSE]

\* relayStdin: the switch on the byte read after the prefix key; ret tells
\* that relayStdin returns
prefixCommand(c, b) ==
    CASE b = KeyD ->
            [c |-> ClientSend([c EXCEPT !.detached = TRUE], MsgDetach, <<>>),
             ret |-> TRUE]
      [] b = KeyS ->
            [c |-> showSessionPicker(c), ret |-> FALSE]
      [] b = KeyBracket ->
            [c |-> IF ~c.historyMode
                   THEN requestHistory([c EXCEPT !.historyMode = TRUE,
                                                 !.historyOffset = scrollLines])
                   ELSE c,
             ret |-> FALSE]
      [] b = CtrlA ->
            [c |-> ClientSend(IF c.historyMode THEN exitHistoryMode(c) ELSE c,
                              MsgData, <<CtrlA>>),
             ret |-> FALSE]
      [] OTHER -> [c |-> c, ret |-> FALSE]

\* the history-mode key bindings with a default case that forwards the byte
historyKey_Forward(c, b) ==
    CASE b = 107 ->
            requestHistory([c EXCEPT !.historyOffset = @ + scrollLines])
      [] b = 106 ->
            IF c.historyOffset - scrollLines <= 0
            THEN exitHistoryMode([c EXCEPT !.historyOffset = @ - scrollLines])
            ELSE requestHistory([c EXCEPT !.historyOffset = @ - scrollLines])
      [] b = 117 ->
            requestHistory([c EXCEPT !.historyOffset = @ + (c.termRows \div 2)])
      [] b = KeyD ->
            IF c.historyOffset - (c.termRows \div 2) <= 0
            THEN exitHistoryMode([c EXCEPT !.historyOffset = @ - (c.termRows \div 2)])
            ELSE requestHistory([c EXCEPT !.historyOffset = @ - (c.termRows \div 2)])
      [] OTHER -> ClientSend(exitHistoryMode(c), MsgData, <<b>>)

\* relayStdin: the history-mode key bindings for a byte that is not part of
\* a handled escape sequence (a lone ESC takes the default case)
historyKey(c, b) ==
    CASE b = 107 ->                                             \* 'k'
            requestHistory([c EXCEPT !.historyOffset = @ + scrollLines])
      [] b = 106 ->                                             \* 'j'
            IF c.historyOffset - scrollLines <= 0
            THEN exitHistoryMode([c EXCEPT !.historyOffset = @ - scrollLines])
            ELSE requestHistory([c EXCEPT !.historyOffset = @ - scrollLines])
      [] b = 117 ->                                             \* 'u'
            requestHistory([c EXCEPT !.historyOffset = @ + (c.termRows \div 2)])
      [] b = KeyD ->
            IF c.historyOffset - (c.termRows \div 2) <= 0
            THEN exitHistoryMode([c EXCEPT !.historyOffset = @ - (c.termRows \div 2)])
            ELSE requestHistory([c EXCEPT !.historyOffset = @ - (c.termRows \div 2)])
      [] OTHER -> exitHistoryMode(c)

\* the loop body of relayStdin without the test for the prefix key
relayStdinByte_ForwardPrefix(c, pa, b) ==
    IF c.choosingSession
    THEN [c |-> handleSessionChoice(c, b).c, pa |-> pa, ret |-> FALSE,
          sig |-> handleSessionChoice(c, b).sig]
    ELSE IF pa
    THEN [c |-> prefixCommand(c, b).c, pa |-> FALSE,
          ret |-> prefixCommand(c, b).ret, sig |-> FALSE]
    ELSE IF b = CtrlS
    THEN [c |-> IF c.historyMode THEN exitHistoryMode(c)
                ELSE requestHistory([c EXCEPT !.historyMode = TRUE,
                                              !.historyOffset = scrollLines]),
          pa |-> pa, ret |-> FALSE, sig |-> FALSE]
    ELSE IF c.historyMode
    THEN [c |-> historyKey(c, b), pa |-> pa, ret |-> FALSE, sig |-> FALSE]
    ELSE [c |-> ClientSend(c, MsgData, <<b>>), pa |-> pa, ret |-> FALSE,
          sig |-> FALSE]

\* relayStdin: the loop body for one byte b that is not ESC, with c the
\* Client and pa the value of prefixActive; the result holds their new
\* values, ret (relayStdin returns) and sig (signalDone was called)
relayStdinByte(c, pa, b) ==
    IF c.choosingSession
    THEN [c |-> handleSessionChoice(c, b).c, pa |-> pa, ret |-> FALSE,
          sig |-> handleSessionChoice(c, b).sig]
    ELSE IF pa
    THEN [c |-> prefixCommand(c, b).c, pa |-> FALSE,
          ret |-> prefixCommand(c, b).ret, sig |-> FALSE]
    ELSE IF b = CtrlA
    THEN [c |-> c, pa |-> TRUE, ret |-> FALSE, sig |-> FALSE]
    ELSE IF b = CtrlS
    THEN [c |-> IF c.historyMode THEN exitHistoryMode(c)
                ELSE requestHistory([c EXCEPT !.historyMode = TRUE,
                                              !.historyOffset = scrollLines]),
          pa |-> pa, ret |-> FALSE, sig |-> FALSE]
    ELSE IF c.historyMode
    THEN [c |-> historyKey(c, b), pa |-> pa, ret |-> FALSE, sig |-> FALSE]
    ELSE [c |-> ClientSend(c, MsgData, <<b>>), pa |-> pa, ret |-> FALSE,
          sig |-> FALSE]

\* ---------------------------------------------------------------- mouse.go
RECURSIVE Atoi(_)
\* strconv.Atoi: the value of a string of decimal digits ds
Atoi(ds) ==
    IF Len(ds) = 0 THEN 0
    ELSE Atoi(SubSeq(ds, 1, Len(ds) - 1)) * 10 + (ds[Len(ds)] - 48)

\* splitSemicolon: the parts of s between its semicolons
splitSemicolon(s) ==
    LET cuts == {i \in 1..Len(s) : s[i] = 59}
        Start(i) == IF \E j \in cuts : j < i
                    THEN (CHOOSE j \in cuts : j < i /\ \A k \in cuts : k < i => k <= j) + 1
                    ELSE 1
        ends == cuts \cup {Len(s) + 1}
        Nth(n) == CHOOSE e \in ends : Cardinality({x \in ends : x < e}) = n - 1
    IN  [n \in 1..Cardinality(ends) |-> SubSeq(s, Start(Nth(n)), Nth(n) - 1)]

\* the decimal digits of math.MaxInt64
MaxInt64Digits ==
    <<57, 50, 50, 51, 51, 55, 50, 48, 51, 54, 56, 53, 52, 55, 55, 53, 56, 48, 55>>

\* strconv.Atoi returns an error: ds, a string of decimal digits, is empty
\* or denotes a number above math.MaxInt64
AtoiErr(ds) ==
    LET nz == {i \in 1..Len(ds) : ds[i] # 48}
        sig == IF nz = {} THEN <<>>
               ELSE SubSeq(ds, CHOOSE i \in nz : \A j \in nz : i <= j, Len(ds))
    IN  \/ Len(ds) = 0
        \/ Len(sig) > Len(MaxInt64Digits)
        \/ /\ Len(sig) = Len(MaxInt64Digits)
           /\ \E i \in 1..Len(sig) :
                /\ sig[i] > MaxInt64Digits[i]
                /\ \A j \in 1..(i - 1) : sig[j] = MaxInt64Digits[j]

\* ParseSGRMouse accepting more than three parameters
ParseSGRMouse_NoCount(data) ==
    LET fail == [ok |-> FALSE, consumed |-> 0,
                 ev |-> [Button |-> 0, Col |-> 0, Row |-> 0, Press |-> FALSE]]
        terms == {i \in 4..Len(data) : data[i] \in {77, 109}}
        bad == {i \in 4..Len(data) : data[i] # 59 /\ data[i] \notin 48..57
                                      /\ data[i] \notin {77, 109}}
    IN  IF Len(data) < 9 THEN fail
        ELSE IF data[1] # ESC \/ data[2] # 91 \/ data[3] # 60 THEN fail
        ELSE IF terms = {} THEN fail
        ELSE LET termIdx == CHOOSE i \in terms : \A j \in terms : i <= j
                 parts == splitSemicolon(SubSeq(data, 4, termIdx - 1))
             IN  IF \E i \in bad : i < termIdx THEN fail
                 ELSE IF Len(parts) < 3 THEN fail
                 ELSE IF \E n \in 1..3 : AtoiErr(parts[n]) THEN fail
                 ELSE [ok |-> TRUE, consumed |-> termIdx,
                       ev |-> [Button |-> Atoi(parts[1]), Col |-> Atoi(parts[2]),
                               Row |-> Atoi(parts[3]),
                               Press |-> data[termIdx] = 77]]

\* ParseSGRMouse: ESC [ < button ; col ; row M/m at the front of data; the
\* result is [ok, ev, consumed]
ParseSGRMouse(data) ==
    LET fail == [ok |-> FALSE, consumed |-> 0,
                 ev |-> [Button |-> 0, Col |-> 0, Row |-> 0, Press |-> FALSE]]
        terms == {i \in 4..Len(data) : data[i] \in {77, 109}}
        bad == {i \in 4..Len(data) : data[i] # 59 /\ data[i] \notin 48..57
                                      /\ data[i] \notin {77, 109}}
    IN  IF Len(data) < 9 THEN fail
        ELSE IF data[1] # ESC \/ data[2] # 91 \/ data[3] # 60 THEN fail
        ELSE IF terms = {} THEN fail
        ELSE LET termIdx == CHOOSE i \in terms : \A j \in terms : i <= j
                 parts == splitSemicolon(SubSeq(data, 4, termIdx - 1))
             IN  IF \E i \in bad : i < termIdx THEN fail
                 ELSE IF Len(parts) # 3 THEN fail
                 ELSE IF \E n \in 1..3 : AtoiErr(parts[n]) THEN fail
                 ELSE [ok |-> TRUE, consumed |-> termIdx,
                       ev |-> [Button |-> Atoi(parts[1]), Col |-> Atoi(parts[2]),
                               Row |-> Atoi(parts[3]),
                               Press |-> data[termIdx] = 77]]

\* handleMouse whose wheel-down case never leaves the history mode
handleMouse_NoExit(c, ev) ==
    CASE ev.Button = 64 ->
            IF ~c.historyMode
            THEN requestHistory([c EXCEPT !.historyMode = TRUE,
                                          !.historyOffset = scrollLines])
            ELSE requestHistory([c EXCEPT !.historyOffset = @ + scrollLines])
      [] ev.Button = 65 ->
            IF c.historyMode
            THEN requestHistory([c EXCEPT !.historyOffset = @ - scrollLines])
            ELSE c
      [] OTHER ->
            IF c.historyMode /\ ev.Press THEN exitHistoryMode(c) ELSE c

\* handleMouse
handleMouse(c, ev) ==
    CASE ev.Button = 64 ->
            IF ~c.historyMode
            THEN requestHistory([c EXCEPT !.historyMode = TRUE,
                                          !.historyOffset = scrollLines])
            ELSE requestHistory([c EXCEPT !.historyOffset = @ + scrollLines])
      [] ev.Button = 65 ->
            IF c.historyMode
            THEN IF c.historyOffset - scrollLines <= 0
                 THEN exitHistoryMode([c EXCEPT !.historyOffset = @ - scrollLines])
                 ELSE requestHistory([c EXCEPT !.historyOffset = @ - scrollLines])
            ELSE c
      [] OTHER ->
            IF c.historyMode /\ ev.Press THEN exitHistoryMode(c) ELSE c

\* the escape sequences with a PageUp that always enters at scrollLines
escapeSequence_PageUpStep(c, rem) ==
    IF rem[3] = 60 /\ ParseSGRMouse(rem).ok
    THEN [hit |-> TRUE, c |-> handleMouse(c, ParseSGRMouse(rem).ev),
          n |-> ParseSGRMouse(rem).consumed]
    ELSE IF Len(rem) >= 4 /\ rem[3] = 53 /\ rem[4] = 126
    THEN [hit |-> TRUE,
          c |-> IF ~c.historyMode
                THEN requestHistory([c EXCEPT !.historyMode = TRUE,
                                              !.historyOffset = scrollLines])
                ELSE requestHistory([c EXCEPT !.historyOffset = @ + c.termRows]),
          n |-> 4]
    ELSE [hit |-> FALSE, c |-> c, n |-> 0]

\* relayStdin: the escape sequences tested at buf[i] when it is ESC and at
\* least two more bytes follow, the second of them '['; rem is buf[i:n].
\* hit tells that one of them was handled, n is the number of bytes it took
escapeSequence(c, rem) ==
    IF rem[3] = 60 /\ ParseSGRMouse(rem).ok
    THEN [hit |-> TRUE, c |-> handleMouse(c, ParseSGRMouse(rem).ev),
          n |-> ParseSGRMouse(rem).consumed]
    ELSE IF Len(rem) >= 4 /\ rem[3] = 53 /\ rem[4] = 126
    THEN [hit |-> TRUE,
          c |-> IF ~c.historyMode
                THEN requestHistory([c EXCEPT !.historyMode = TRUE,
                                              !.historyOffset = c.termRows])
                ELSE requestHistory([c EXCEPT !.historyOffset = @ + c.termRows]),
          n |-> 4]
    ELSE IF Len(rem) >= 4 /\ rem[3] = 54 /\ rem[4] = 126
    THEN [hit |-> TRUE,
          c |-> IF c.historyMode
                THEN IF c.historyOffset - c.termRows <= 0
                     THEN exitHistoryMode([c EXCEPT !.historyOffset = @ - c.termRows])
                     ELSE requestHistory([c EXCEPT !.historyOffset = @ - c.termRows])
                ELSE c,
          n |-> 4]
    ELSE IF c.historyMode /\ rem[3] = 65
    THEN [hit |-> TRUE,
          c |-> requestHistory([c EXCEPT !.historyOffset = @ + scrollLines]),
          n |-> 3]
    ELSE IF c.historyMode /\ rem[3] = 66
    THEN [hit |-> TRUE,
          c |-> IF c.historyOffset - scrollLines <= 0
                THEN exitHistoryMode([c EXCEPT !.historyOffset = @ - scrollLines])
                ELSE requestHistory([c EXCEPT !.historyOffset = @ - scrollLines]),
          n |-> 3]
    ELSE [hit |-> FALSE, c |-> c, n |-> 0]

\* relayStdin: the loop body at buf[i] (i counts from 0); the result holds
\* the new Client and prefixActive, ret (relayStdin returns), sig
\* (signalDone was called) and n, the number of bytes the iteration took
relayStdinAt(c, pa, buf, i) ==
    LET b == buf[i + 1]
        rem == SubSeq(buf, i + 1, Len(buf))
        one == relayStdinByte(c, pa, b)
        byte == [c |-> one.c, pa |-> one.pa, ret |-> one.ret, sig |-> one.sig, n |-> 1]
    IN  IF c.choosingSession \/ pa \/ b = CtrlA \/ b = CtrlS THEN byte
        ELSE IF b = ESC /\ Len(rem) >= 3 /\ rem[2] = 91 /\ escapeSequence(c, rem).hit
        THEN [c |-> escapeSequence(c, rem).c, pa |-> pa, ret |-> FALSE,
              sig |-> FALSE, n |-> escapeSequence(c, rem).n]
        ELSE byte

\* renderHistory: the screen is cleared and the line data written; the
\* position indicator is drawn in history mode when there are lines
renderHistory(c, payload) ==
    IF Len(payload) < 8 THEN c
    ELSE TermWrite(c, "history", SubSeq(payload, 9, Len(payload)),
                   c.historyMode /\ Uint32(payload, 4) > 0)

StdinBytes == {CtrlA, CtrlS, KeyD, KeyS, KeyBracket, KeyA}
StdinChunks == SeqsOf(StdinBytes, 1, MaxChunk)
StartSizes == {<<Rows, DefaultCols>>}
WinchSizes == {<<0, DefaultCols>>}
SessionMsgs ==
    {[Type |-> MsgData, Payload |-> <<120>>],
     [Type |-> MsgHistoryResponse,
      Payload |-> PutUint32(0) \o PutUint32(1) \o <<104>>],
     [Type |-> MsgHistoryResponse, Payload |-> <<0>>],
     [Type |-> MsgResize, Payload |-> <<>>]}

\* Run: raw mode is on, the size is known, the initial resize is sent and
\* the relay goroutines are started
ClientRun_Start ==
    /\ clRunPc = "start"
    /\ \E size \in StartSizes :
        cl' = sendResize([cl EXCEPT !.termRows = size[1], !.termCols = size[2],
                                    !.raw = TRUE])
    /\ clRunPc' = "wait"
    /\ stdinPc' = "select"
    /\ sockPc' = "decode"
    /\ UNCHANGED <<prefixActive, stdinBuf, stdinI, sockMsg, clDone, clConnClosed,
                   sessEnd, nStdin, nIn, nWinch>>
    /\ UNCHANGED <<sessionVars, codecVars, sideVars>>

\* Run: enableRawMode fails, the connection is closed and Run returns
ClientRun_RawErr ==
    /\ clRunPc = "start"
    /\ clConnClosed' = TRUE
    /\ clRunPc' = "returned"
    /\ UNCHANGED <<cl, prefixActive, stdinBuf, stdinI, stdinPc, sockPc, sockMsg,
                   clDone, sessEnd, nStdin, nIn, nWinch>>
    /\ UNCHANGED <<sessionVars, codecVars, sideVars>>

\* Run: <-c.done, then c.conn.Close(), c.restore() and return
ClientRun_Done ==
    /\ clRunPc = "wait" /\ clDone
    /\ clConnClosed' = TRUE
    /\ cl' = [cl EXCEPT !.raw = FALSE]
    /\ clRunPc' = "returned"
    /\ UNCHANGED <<prefixActive, stdinBuf, stdinI, stdinPc, sockPc, sockMsg,
                   clDone, sessEnd, nStdin, nIn, nWinch>>
    /\ UNCHANGED <<sessionVars, codecVars, sideVars>>

\* handleSigwinch: a window-change signal, the size is read and sent
HandleSigwinch ==
    /\ clRunPc # "start" /\ stdinPc # "none"
    /\ nWinch < MaxWinch
    /\ \E size \in WinchSizes :
        cl' = sendResize([cl EXCEPT !.termRows = size[1], !.termCols = size[2]])
    /\ nWinch' = nWinch + 1
    /\ UNCHANGED <<prefixActive, stdinBuf, stdinI, stdinPc, sockPc, sockMsg, clDone,
                   clRunPc, clConnClosed, sessEnd, nStdin, nIn>>
    /\ UNCHANGED <<sessionVars, codecVars, sideVars>>

\* relayStdin: the select takes a chunk from stdinCh
RelayStdin_Read ==
    /\ stdinPc = "select"
    /\ \E data \in StdinChunks :
        /\ nStdin + Len(data) <= MaxStdin
        /\ stdinBuf' = data
        /\ nStdin' = nStdin + Len(data)
    /\ stdinI' = 0
    /\ stdinPc' = "bytes"
    /\ UNCHANGED <<cl, prefixActive, sockPc, sockMsg, clDone, clRunPc, clConnClosed,
                   sessEnd, nIn, nWinch>>
    /\ UNCHANGED <<sessionVars, codecVars, sideVars>>

\* relayStdin: the select takes <-c.done and returns
RelayStdin_Done ==
    /\ stdinPc = "select" /\ clDone
    /\ stdinPc' = "exit"
    /\ UNCHANGED <<cl, prefixActive, stdinBuf, stdinI, sockPc, sockMsg, clDone,
                   clRunPc, clConnClosed, sessEnd, nStdin, nIn, nWinch>>
    /\ UNCHANGED <<sessionVars, codecVars, sideVars>>

\* relayStdin: the chunk carries a read error, return (signalDone deferred)
RelayStdin_Err ==
    /\ stdinPc = "select"
    /\ stdinPc' = "exit"
    /\ clDone' = TRUE
    /\ UNCHANGED <<cl, prefixActive, stdinBuf, stdinI, sockPc, sockMsg, clRunPc,
                   clConnClosed, sessEnd, nStdin, nIn, nWinch>>
    /\ UNCHANGED <<sessionVars, codecVars, sideVars>>

\* relayStdin: the loop body for buf[i]; after the last byte of the chunk
\* the relay is back at the select
RelayStdin_Byte ==
    /\ stdinPc = "bytes" /\ stdinI < Len(stdinBuf)
    /\ LET r == relayStdinAt(cl, prefixActive, stdinBuf, stdinI)
       IN  /\ cl' = r.c
           /\ prefixActive' = r.pa
           /\ clDone' = (clDone \/ r.ret \/ r.sig)
           /\ IF r.ret
              THEN stdinPc' = "exit" /\ UNCHANGED stdinI
              ELSE /\ stdinI' = stdinI + r.n
                   /\ stdinPc' = IF stdinI + r.n < Len(stdinBuf) THEN "bytes"
                                 ELSE "select"
    /\ UNCHANGED <<stdinBuf, sockPc, sockMsg, clRunPc, clConnClosed, sessEnd,
                   nStdin, nIn, nWinch>>
    /\ UNCHANGED <<sessionVars, codecVars, sideVars>>

\* the session closes its end of the stream, or goes away
SessionEnds ==
    /\ clRunPc # "start" /\ ~sessEnd
    /\ sessEnd' = TRUE
    /\ UNCHANGED <<cl, prefixActive, stdinBuf, stdinI, stdinPc, sockPc, sockMsg,
                   clDone, clRunPc, clConnClosed, nStdin, nIn, nWinch>>
    /\ UNCHANGED <<sessionVars, codecVars, sideVars>>

\* relaySocket: Decode returns a message the session sent
RelaySocket_Decode ==
    /\ sockPc = "decode"
    /\ ~sessEnd /\ ~clConnClosed
    /\ nIn < MaxIn
    /\ \E m \in SessionMsgs : sockMsg' = Decode(Encode(m)).msg
    /\ nIn' = nIn + 1
    /\ sockPc' = "switch"
    /\ UNCHANGED <<cl, prefixActive, stdinBuf, stdinI, stdinPc, clDone, clRunPc,
                   clConnClosed, sessEnd, nStdin, nWinch>>
    /\ UNCHANGED <<sessionVars, codecVars, sideVars>>

\* relaySocket: Decode fails, return (signalDone deferred)
RelaySocket_Err ==
    /\ sockPc = "decode"
    /\ sessEnd \/ clConnClosed
    /\ sockPc' = "exit"
    /\ clDone' = TRUE
    /\ UNCHANGED <<cl, prefixActive, stdinBuf, stdinI, stdinPc, sockMsg, clRunPc,
                   clConnClosed, sessEnd, nStdin, nIn, nWinch>>
    /\ UNCHANGED <<sessionVars, codecVars, sideVars>>

\* the switch of relaySocket writing every DATA payload
RelaySocket_Switch_Always ==
    /\ sockPc = "switch"
    /\ CASE sockMsg.Type = MsgData ->
                /\ sockPc' = "write"
                /\ UNCHANGED cl
         [] sockMsg.Type = MsgHistoryResponse ->
                /\ cl' = renderHistory(cl, sockMsg.Payload)
                /\ sockPc' = "decode"
         [] OTHER ->
                /\ sockPc' = "decode"
                /\ UNCHANGED cl
    /\ UNCHANGED <<prefixActive, stdinBuf, stdinI, stdinPc, sockMsg, clDone, clRunPc,
                   clConnClosed, sessEnd, nStdin, nIn, nWinch>>
    /\ UNCHANGED <<sessionVars, codecVars, sideVars>>

\* relaySocket: the switch on msg.Type; for MsgData the two flags are tested
\* here and the payload is written in the next step
RelaySocket_Switch ==
    /\ sockPc = "switch"
    /\ CASE sockMsg.Type = MsgData ->
                /\ sockPc' = IF ~cl.historyMode /\ ~cl.choosingSession
                             THEN "write" ELSE "decode"
                /\ UNCHANGED cl
         [] sockMsg.Type = MsgHistoryResponse ->
                /\ cl' = renderHistory(cl, sockMsg.Payload)
                /\ sockPc' = "decode"
         [] OTHER ->
                /\ sockPc' = "decode"
                /\ UNCHANGED cl
    /\ UNCHANGED <<prefixActive, stdinBuf, stdinI, stdinPc, sockMsg, clDone, clRunPc,
                   clConnClosed, sessEnd, nStdin, nIn, nWinch>>
    /\ UNCHANGED <<sessionVars, codecVars, sideVars>>

\* relaySocket: os.Stdout.Write(msg.Payload)
RelaySocket_Write ==
    /\ sockPc = "write"
    /\ cl' = TermWrite(cl, "data", sockMsg.Payload, FALSE)
    /\ sockPc' = "decode"
    /\ UNCHANGED <<prefixActive, stdinBuf, stdinI, stdinPc, sockMsg, clDone, clRunPc,
                   clConnClosed, sessEnd, nStdin, nIn, nWinch>>
    /\ UNCHANGED <<sessionVars, codecVars, sideVars>>

NextClient ==
    \/ ClientRun_Start \/ ClientRun_RawErr \/ ClientRun_Done
    \/ HandleSigwinch
    \/ RelayStdin_Read \/ RelayStdin_Done \/ RelayStdin_Err \/ RelayStdin_Byte
    \/ SessionEnds
    \/ RelaySocket_Decode \/ RelaySocket_Err \/ RelaySocket_Switch
    \/ RelaySocket_Write

SpecClient == Init /\ [][NextClient]_vars

\* Run is woken once done is closed
SpecClientLive == SpecClient /\ WF_vars(ClientRun_Done)

\* ------------------------------------------------------ session runtime
\* the session process is alive: Run has not returned and nothing panicked
Running == runPc # "exited" /\ accPc # "panic"

\* conn.Write(bytes) on connection c: it reaches the stream unless the
\* session has already closed c
ConnWrite(c, bytes) ==
    IF connSt[c] = "open" THEN [sent EXCEPT ![c] = @ \o bytes] ELSE sent

\* conn.Write on connection c returns an error: the session has closed c or
\* the peer is gone
WriteFails(c) == connSt[c] # "open" \/ peer[c] = "gone"

\* wfail after a write to connection c: a failure is recorded for a
\* front-end's connection
NoteWrite(c) == IF WriteFails(c) /\ c \notin kcmd THEN wfail \cup {c} ELSE wfail

\* readPTY: s.ptmx.Read returns a chunk
ReadPTY_Read ==
    /\ Running /\ ptyPc = "read"
    /\ shell = "running" /\ ~ptmxClosed
    /\ \E data \in PtyChunks :
        /\ Len(written) + Len(data) <= MaxPty
        /\ ptyData' = data
    /\ ptyPc' = "write"
    /\ UNCHANGED <<ringVars, histVars, ptyI, ptyDone, accVars, connVars, sessVars,
                   runVars, ghostVars>>
    /\ UNCHANGED <<killVars, fileVars, errVars, codecVars, feVars, sideVars>>

\* readPTY: s.ptmx.Read fails (the shell is gone or the master is closed);
\* the deferred close(done) runs
ReadPTY_EOF ==
    /\ Running /\ ptyPc = "read"
    /\ shell = "exited" \/ ptmxClosed
    /\ ptyPc' = "done"
    /\ ptyDone' = TRUE
    /\ UNCHANGED <<ringVars, histVars, ptyData, ptyI, accVars, connVars, sessVars,
                   runVars, ghostVars>>
    /\ UNCHANGED <<killVars, fileVars, errVars, codecVars, feVars, sideVars>>

\* readPTY: s.buffer.Write(data)
ReadPTY_BufferWrite ==
    /\ Running /\ ptyPc = "write"
    /\ buffer' = Write(buffer, ptyData)
    /\ written' = written \o ptyData
    /\ ptyI' = 0
    /\ ptyPc' = "raw"
    /\ UNCHANGED <<rawBuf, rawHead, rawLen, histVars, ptyData, ptyDone, accVars,
                   connVars, sessVars, runVars, ghostVars>>
    /\ UNCHANGED <<killVars, fileVars, errVars, codecVars, feVars, sideVars>>

\* readPTY: one iteration of the raw append loop
ReadPTY_RawByte ==
    /\ Running /\ ptyPc = "raw" /\ ptyI < Len(ptyData)
    /\ rawBuf' = AppendRawByte(Ring, ptyData[ptyI + 1]).rawBuf
    /\ rawHead' = AppendRawByte(Ring, ptyData[ptyI + 1]).rawHead
    /\ rawLen' = AppendRawByte(Ring, ptyData[ptyI + 1]).rawLen
    /\ ptyI' = ptyI + 1
    /\ UNCHANGED <<buffer, written, histVars, ptyPc, ptyData, ptyDone, accVars,
                   connVars, sessVars, runVars, ghostVars>>
    /\ UNCHANGED <<killVars, fileVars, errVars, codecVars, feVars, sideVars>>

\* the fan-out forwarding only the last byte of the chunk
ReadPTY_Fanout_LastByte ==
    /\ Running /\ ptyPc = "raw" /\ ptyI >= Len(ptyData)
    /\ sent' = IF client # 0
               THEN ConnWrite(client, Encode([Type |-> MsgData,
                                              Payload |-> SubSeq(ptyData, Len(ptyData),
                                                                  Len(ptyData))]))
               ELSE sent
    /\ wfail' = IF client # 0 THEN NoteWrite(client) ELSE wfail
    /\ pwfail' = pwfail
    /\ ptyPc' = "read"
    /\ UNCHANGED <<ringVars, histVars, ptyData, ptyI, ptyDone, accVars, connSt, peer,
                   hPc, nmsg, sessVars, runVars, ghostVars>>
    /\ UNCHANGED <<killVars, fileVars, codecVars, feVars, sideVars>>

\* readPTY: under clientMu, forward the chunk to the attached client
ReadPTY_Fanout ==
    /\ Running /\ ptyPc = "raw" /\ ptyI >= Len(ptyData)
    /\ sent' = IF client # 0
               THEN ConnWrite(client, Encode([Type |-> MsgData, Payload |-> ptyData]))
               ELSE sent
    /\ wfail' = IF client # 0 THEN NoteWrite(client) ELSE wfail
    /\ pwfail' = pwfail
    /\ ptyPc' = "read"
    /\ UNCHANGED <<ringVars, histVars, ptyData, ptyI, ptyDone, accVars, connSt, peer,
                   hPc, nmsg, sessVars, runVars, ghostVars>>
    /\ UNCHANGED <<killVars, fileVars, codecVars, feVars, sideVars>>

\* acceptClients: s.listener.Accept returns a connection
Accept_Conn ==
    /\ Running /\ accPc = "accept" /\ ~listenerClosed
    /\ \E c \in Conns :
        /\ connSt[c] = "dialed"
        /\ accConn' = c
        /\ connSt' = [connSt EXCEPT ![c] = "open"]
    /\ accPc' = "lock"
    /\ UNCHANGED <<ringVars, histVars, ptyVars, accRaw, accStart, accI, peer, sent,
                   hPc, nmsg, sessVars, runVars, ghostVars>>
    /\ UNCHANGED <<killVars, fileVars, errVars, codecVars, feVars, sideVars>>

\* acceptClients: s.listener.Accept fails, the acceptor returns
Accept_Err ==
    /\ Running /\ accPc = "accept" /\ listenerClosed
    /\ accPc' = "exit"
    /\ UNCHANGED <<ringVars, histVars, ptyVars, accConn, accRaw, accStart, accI,
                   connVars, sessVars, runVars, ghostVars>>
    /\ UNCHANGED <<killVars, fileVars, errVars, codecVars, feVars, sideVars>>

\* the acceptor registering conn whatever the slot holds
Accept_Lock_Preempt ==
    /\ Running /\ accPc = "lock"
    /\ client' = accConn
    /\ accPc' = "redraw"
    /\ attachB' = [attachB EXCEPT ![accConn] = Snapshot(Ring)]
    /\ UNCHANGED rejected
    /\ UNCHANGED <<ringVars, histVars, ptyVars, accConn, accRaw, accStart, accI,
                   connVars, lastRows, winsize, shell, listenerClosed, ptmxClosed, ptyIn,
                   runVars>>
    /\ UNCHANGED <<killVars, fileVars, errVars, codecVars, feVars, sideVars>>

\* acceptClients: under clientMu, reject or register conn
Accept_Lock ==
    /\ Running /\ accPc = "lock"
    /\ IF client # 0
       THEN /\ accPc' = "reject"
            /\ rejected' = rejected \cup {accConn}
            /\ UNCHANGED <<client, attachB>>
       ELSE /\ client' = accConn
            /\ accPc' = "redraw"
            /\ attachB' = [attachB EXCEPT ![accConn] = Snapshot(Ring)]
            /\ UNCHANGED rejected
    /\ UNCHANGED <<ringVars, histVars, ptyVars, accConn, accRaw, accStart, accI,
                   connVars, lastRows, winsize, shell, listenerClosed, ptmxClosed, ptyIn,
                   runVars>>
    /\ UNCHANGED <<killVars, fileVars, errVars, codecVars, feVars, sideVars>>

\* the rejection without conn.Close()
Accept_Reject_NoClose ==
    /\ Running /\ accPc = "reject"
    /\ sent' = ConnWrite(accConn, RejectBytes)
    /\ accPc' = "accept"
    /\ UNCHANGED <<ringVars, histVars, ptyVars, accConn, accRaw, accStart, accI,
                   connSt, peer, hPc, nmsg, sessVars, runVars, ghostVars>>
    /\ UNCHANGED <<killVars, fileVars, errVars, codecVars, feVars, sideVars>>

\* acceptClients: write the explanatory message to the rejected conn, close it
Accept_Reject ==
    /\ Running /\ accPc = "reject"
    /\ sent' = ConnWrite(accConn, RejectBytes)
    /\ connSt' = [connSt EXCEPT ![accConn] = "closed"]
    /\ accPc' = "accept"
    /\ UNCHANGED <<ringVars, histVars, ptyVars, accConn, accRaw, accStart, accI,
                   peer, hPc, nmsg, sessVars, runVars, ghostVars>>
    /\ UNCHANGED <<killVars, fileVars, errVars, codecVars, feVars, sideVars>>

\* sendRedraw: return on an empty ring (handleClient is then started),
\* otherwise compute startPos and allocate raw
SendRedraw_Start ==
    /\ Running /\ accPc = "redraw"
    /\ IF rawLen = 0
       THEN /\ hPc' = [hPc EXCEPT ![accConn] = "run"]
            /\ accPc' = "accept"
            /\ UNCHANGED <<accRaw, accStart, accI>>
       ELSE /\ accStart' = StartPos(Ring)
            /\ accRaw' = [i \in 1..rawLen |-> 0]
            /\ accI' = 0
            /\ accPc' = "copy"
            /\ UNCHANGED hPc
    /\ UNCHANGED <<ringVars, histVars, ptyVars, accConn, connSt, peer, sent, nmsg,
                   sessVars, runVars, ghostVars>>
    /\ UNCHANGED <<killVars, fileVars, errVars, codecVars, feVars, sideVars>>

\* sendRedraw: one iteration of the copy loop; its condition reads s.rawLen,
\* so an index past len(raw) panics and ends the process
SendRedraw_Copy ==
    /\ Running /\ accPc = "copy" /\ accI < rawLen
    /\ IF accI >= Len(accRaw)
       THEN /\ accPc' = "panic"
            /\ UNCHANGED <<accRaw, accI>>
       ELSE /\ accRaw' = [accRaw EXCEPT ![accI + 1] = RawAt(Ring, accStart, accI)]
            /\ accI' = accI + 1
            /\ UNCHANGED accPc
    /\ UNCHANGED <<ringVars, histVars, ptyVars, accConn, accStart, connVars,
                   sessVars, runVars, ghostVars>>
    /\ UNCHANGED <<killVars, fileVars, errVars, codecVars, feVars, sideVars>>

\* sendRedraw writing the redraw payload without framing it
SendRedraw_Send_NoHeader ==
    /\ Running /\ accPc = "copy" /\ accI >= rawLen
    /\ sent' = ConnWrite(accConn, ClearHome \o accRaw)
    /\ wfail' = NoteWrite(accConn)
    /\ pwfail' = pwfail
    /\ hPc' = [hPc EXCEPT ![accConn] = "run"]
    /\ accPc' = "accept"
    /\ UNCHANGED <<ringVars, histVars, ptyVars, accConn, accRaw, accStart, accI,
                   connSt, peer, nmsg, sessVars, runVars, ghostVars>>
    /\ UNCHANGED <<killVars, fileVars, codecVars, feVars, sideVars>>

\* sendRedraw: write the redraw message; acceptClients starts handleClient
SendRedraw_Send ==
    /\ Running /\ accPc = "copy" /\ accI >= rawLen
    /\ sent' = ConnWrite(accConn, RedrawBytes(accRaw))
    /\ wfail' = NoteWrite(accConn)
    /\ pwfail' = pwfail
    /\ hPc' = [hPc EXCEPT ![accConn] = "run"]
    /\ accPc' = "accept"
    /\ UNCHANGED <<ringVars, histVars, ptyVars, accConn, accRaw, accStart, accI,
                   connSt, peer, nmsg, sessVars, runVars, ghostVars>>
    /\ UNCHANGED <<killVars, fileVars, codecVars, feVars, sideVars>>

\* the deferred function without the release of the slot
Release_KeepSlot(c) ==
    /\ client' = client
    /\ connSt' = [connSt EXCEPT ![c] = "closed"]
    /\ hPc' = [hPc EXCEPT ![c] = "exited"]

\* handleClient: the deferred function (release the slot, close conn)
Release(c) ==
    /\ client' = IF client = c THEN 0 ELSE client
    /\ connSt' = [connSt EXCEPT ![c] = "closed"]
    /\ hPc' = [hPc EXCEPT ![c] = "exited"]

\* handleClient is blocked in Decode on a connection that can deliver, with
\* fewer than limit messages received so far
ReceivingUpTo(c, limit) ==
    /\ Running /\ hPc[c] = "run"
    /\ connSt[c] = "open" /\ peer[c] = "alive"
    /\ nmsg < limit

Receiving(c) == ReceivingUpTo(c, MaxMsgs)

\* the reader failing only on a connection the session itself has closed
Handle_ReadErr_OnlyClosed(c) ==
    /\ Running /\ hPc[c] = "run"
    /\ connSt[c] # "open"
    /\ Release(c)
    /\ UNCHANGED <<ringVars, histVars, ptyVars, accVars, peer, sent, nmsg, lastRows, winsize,
                   shell, listenerClosed, ptmxClosed, ptyIn, runVars, ghostVars>>
    /\ UNCHANGED <<killVars, fileVars, errVars, codecVars, feVars, sideVars>>

\* handleClient: Decode fails (peer gone, or conn closed under the reader)
Handle_ReadErr(c) ==
    /\ Running /\ hPc[c] = "run"
    /\ connSt[c] # "open" \/ (peer[c] = "gone" /\ c \notin kpend)
    /\ Release(c)
    /\ UNCHANGED <<ringVars, histVars, ptyVars, accVars, peer, sent, nmsg, lastRows, winsize,
                   shell, listenerClosed, ptmxClosed, ptyIn, runVars, ghostVars>>
    /\ UNCHANGED <<killVars, fileVars, errVars, codecVars, feVars, sideVars>>

DataPayloads == {<<97>>}

\* s.ptmx.Write returns an error: the master is closed, or the shell has
\* exited and with it the slave side is closed
PtyWriteFails == ptmxClosed \/ shell = "exited"

\* MsgData with the write's error taken for the reader's exit
Handle_Data_Fatal(c) ==
    /\ Receiving(c)
    /\ \E p \in DataPayloads : ptyIn' = IF PtyWriteFails THEN ptyIn ELSE ptyIn \o p
    /\ pwfail' = (pwfail \/ PtyWriteFails)
    /\ ptyDone' = (ptyDone \/ PtyWriteFails)
    /\ nmsg' = nmsg + 1
    /\ UNCHANGED <<ringVars, histVars, ptyPc, ptyData, ptyI, accVars, connSt, peer,
                   sent, hPc, client, lastRows, winsize, shell, listenerClosed, ptmxClosed,
                   runVars, ghostVars>>
    /\ UNCHANGED <<killVars, fileVars, wfail, codecVars, feVars, sideVars>>

\* handleClient: MsgData, s.ptmx.Write(msg.Payload) with its result dropped
Handle_Data(c) ==
    /\ Receiving(c)
    /\ \E p \in DataPayloads : ptyIn' = IF PtyWriteFails THEN ptyIn ELSE ptyIn \o p
    /\ pwfail' = (pwfail \/ PtyWriteFails)
    /\ nmsg' = nmsg + 1
    /\ UNCHANGED <<ringVars, histVars, ptyVars, accVars, connSt, peer, sent, hPc,
                   client, lastRows, winsize, shell, listenerClosed, ptmxClosed, runVars,
                   ghostVars>>
    /\ UNCHANGED <<killVars, fileVars, wfail, codecVars, feVars, sideVars>>

ResizePayloads == {<<0, 24, 0, 80>>, <<0, 24>>}

\* MsgResize without the length check of the payload
Handle_ResizeMsg_NoCheck(c, p) ==
    /\ Receiving(c)
    /\ lastRows' = p[1] * 256 + p[2]
    /\ winsize' = IF ptmxClosed THEN winsize
                  ELSE <<p[1] * 256 + p[2], IF Len(p) >= 4 THEN p[3] * 256 + p[4] ELSE 0>>
    /\ nmsg' = nmsg + 1
    /\ UNCHANGED <<ringVars, histVars, ptyVars, accVars, connSt, peer, sent, hPc,
                   client, shell, listenerClosed, ptmxClosed, ptyIn, runVars,
                   ghostVars>>
    /\ UNCHANGED <<killVars, fileVars, errVars, codecVars, feVars, sideVars>>

\* handleClient: MsgResize with payload p; pty.Setsize fails on a closed
\* master
Handle_ResizeMsg(c, p) ==
    /\ Receiving(c)
    /\ lastRows' = IF Len(p) >= 4 THEN p[1] * 256 + p[2] ELSE lastRows
    /\ winsize' = IF Len(p) >= 4 /\ ~ptmxClosed
                  THEN <<p[1] * 256 + p[2], p[3] * 256 + p[4]>>
                  ELSE winsize
    /\ nmsg' = nmsg + 1
    /\ UNCHANGED <<ringVars, histVars, ptyVars, accVars, connSt, peer, sent, hPc,
                   client, shell, listenerClosed, ptmxClosed, ptyIn, runVars,
                   ghostVars>>
    /\ UNCHANGED <<killVars, fileVars, errVars, codecVars, feVars, sideVars>>

\* handleClient: MsgResize
Handle_Resize(c) == \E p \in ResizePayloads : Handle_ResizeMsg(c, p)

\* handleClient: MsgDetach
Handle_Detach(c) ==
    /\ Receiving(c)
    /\ Release(c)
    /\ nmsg' = nmsg + 1
    /\ UNCHANGED <<ringVars, histVars, ptyVars, accVars, peer, sent, lastRows, winsize,
                   shell, listenerClosed, ptmxClosed, ptyIn, runVars, ghostVars>>
    /\ UNCHANGED <<killVars, fileVars, errVars, codecVars, feVars, sideVars>>

\* handleClient: MsgKill, sent by an attached front-end or left on the
\* connection by the kill command; s.cmd.Process.Kill(), then return
Handle_Kill(c) ==
    /\ Running /\ hPc[c] = "run" /\ connSt[c] = "open"
    /\ IF c \in kpend
       THEN /\ kpend' = kpend \ {c}
            /\ UNCHANGED nmsg
       ELSE /\ peer[c] = "alive" /\ nmsg < MaxMsgs
            /\ nmsg' = nmsg + 1
            /\ UNCHANGED kpend
    /\ shell' = "exited"
    /\ killRecv' = TRUE
    /\ Release(c)
    /\ UNCHANGED <<ringVars, histVars, ptyVars, accVars, peer, sent, lastRows, winsize,
                   listenerClosed, ptmxClosed, ptyIn, runVars, ghostVars>>
    /\ UNCHANGED <<kcmd, fileVars, errVars, codecVars, feVars, sideVars>>

SessHistoryPayloads == {<<128, 0, 0, 0, 0, 0, 0, 1>>, <<128, 0, 0, 0>>}

\* the history request handler answering every request twice
Handle_HistoryReq_Twice(c, p, limit) ==
    /\ ReceivingUpTo(c, limit)
    /\ sent' = ConnWrite(c, handleHistoryRequest(buffer, p)
                            \o handleHistoryRequest(buffer, p))
    /\ nmsg' = nmsg + 1
    /\ UNCHANGED <<peer, wfail>>
    /\ UNCHANGED <<ringVars, histVars, ptyVars, accVars, connSt, hPc,
                   sessVars, runVars, ghostVars>>
    /\ UNCHANGED <<killVars, fileVars, pwfail, codecVars, feVars, sideVars>>

\* handleClient: MsgHistoryRequest with payload p, the limit-th message at
\* most; the front-end may be gone by the time the response is written, and
\* the write then fails
Handle_HistoryReq(c, p, limit) ==
    /\ ReceivingUpTo(c, limit)
    /\ \E gone \in BOOLEAN :
        IF gone /\ Len(handleHistoryRequest(buffer, p)) > 0
        THEN /\ peer' = [peer EXCEPT ![c] = "gone"]
             /\ wfail' = wfail \cup {c}
             /\ sent' = sent
        ELSE /\ ~gone
             /\ sent' = ConnWrite(c, handleHistoryRequest(buffer, p))
             /\ UNCHANGED <<peer, wfail>>
    /\ nmsg' = nmsg + 1
    /\ UNCHANGED <<ringVars, histVars, ptyVars, accVars, connSt, hPc,
                   sessVars, runVars, ghostVars>>
    /\ UNCHANGED <<killVars, fileVars, pwfail, codecVars, feVars, sideVars>>

\* handleClient: MsgHistoryRequest with payload p
Handle_HistoryMsg(c, p) == Handle_HistoryReq(c, p, MaxMsgs)

\* handleClient: MsgHistoryRequest
Handle_History(c) == \E p \in SessHistoryPayloads : Handle_HistoryMsg(c, p)

\* handleClient: any other kind falls through the switch
Handle_Other(c) ==
    /\ Receiving(c)
    /\ nmsg' = nmsg + 1
    /\ UNCHANGED <<ringVars, histVars, ptyVars, accVars, connSt, peer, sent, hPc,
                   sessVars, runVars, ghostVars>>
    /\ UNCHANGED <<killVars, fileVars, errVars, codecVars, feVars, sideVars>>

\* Run: the select takes <-ptyDone
Run_ShellExited ==
    /\ runPc = "wait" /\ accPc # "panic"
    /\ ptyDone
    /\ runPc' = "cleanup"
    /\ UNCHANGED <<ringVars, histVars, ptyVars, accVars, connVars, sessVars,
                   ghostVars>>
    /\ UNCHANGED <<killVars, fileVars, errVars, codecVars, feVars, sideVars>>

\* the signal case without s.cmd.Process.Kill()
Run_Signal_NoKill ==
    /\ runPc = "wait" /\ accPc # "panic"
    /\ runPc' = "cleanup"
    /\ UNCHANGED <<ringVars, histVars, ptyVars, accVars, connVars, sessVars,
                   ghostVars>>
    /\ UNCHANGED <<killVars, fileVars, errVars, codecVars, feVars, sideVars>>

\* Run: a termination signal arrives, the select takes <-sigCh and kills
\* the shell
Run_Signal ==
    /\ runPc = "wait" /\ accPc # "panic"
    /\ shell' = "exited"
    /\ runPc' = "cleanup"
    /\ UNCHANGED <<ringVars, histVars, ptyVars, accVars, connVars, client, lastRows, winsize,
                   listenerClosed, ptmxClosed, ptyIn, ghostVars>>
    /\ UNCHANGED <<killVars, fileVars, errVars, codecVars, feVars, sideVars>>

\* cleanup: under clientMu, close and clear the client
Cleanup_Client ==
    /\ Running /\ runPc = "cleanup"
    /\ IF client # 0
       THEN /\ connSt' = [connSt EXCEPT ![client] = "closed"]
            /\ client' = 0
       ELSE UNCHANGED <<connSt, client>>
    /\ runPc' = "close"
    /\ UNCHANGED <<ringVars, histVars, ptyVars, accVars, peer, sent, hPc, nmsg,
                   lastRows, winsize, shell, listenerClosed, ptmxClosed, ptyIn,
                   ghostVars>>
    /\ UNCHANGED <<killVars, fileVars, errVars, codecVars, feVars, sideVars>>

\* cleanup: s.listener.Close(), s.ptmx.Close()
Cleanup_Close ==
    /\ Running /\ runPc = "close"
    /\ listenerClosed' = TRUE
    /\ ptmxClosed' = TRUE
    /\ runPc' = "reap"
    /\ UNCHANGED <<ringVars, histVars, ptyVars, accVars, connVars, client, lastRows, winsize,
                   shell, ptyIn, ghostVars>>
    /\ UNCHANGED <<killVars, fileVars, errVars, codecVars, feVars, sideVars>>

\* cleanup: s.cmd.Wait() returns once the shell is gone, the files are
\* removed, Run returns and the process ends
Cleanup_Reap ==
    /\ Running /\ runPc = "reap"
    /\ shell = "exited"
    /\ sockFile' = FALSE
    /\ infoFile' = FALSE
    /\ runPc' = "exited"
    /\ UNCHANGED <<ringVars, histVars, ptyVars, accVars, connVars, sessVars,
                   ghostVars>>
    /\ UNCHANGED <<killVars, errVars, codecVars, feVars, sideVars>>

\* environment: the shell exits on its own
ShellExit ==
    /\ Running /\ shell = "running"
    /\ shell' = "exited"
    /\ UNCHANGED <<ringVars, histVars, ptyVars, accVars, connVars, client, lastRows, winsize,
                   listenerClosed, ptmxClosed, ptyIn, runVars, ghostVars>>
    /\ UNCHANGED <<killVars, fileVars, errVars, codecVars, feVars, sideVars>>

\* environment: a front-end connects to the endpoint
Dial(c) ==
    /\ Running /\ ~listenerClosed
    /\ connSt[c] = "none"
    /\ \A d \in Conns : d < c => connSt[d] # "none"
    /\ connSt' = [connSt EXCEPT ![c] = "dialed"]
    /\ UNCHANGED <<ringVars, histVars, ptyVars, accVars, peer, sent, hPc, nmsg,
                   sessVars, runVars, ghostVars>>
    /\ UNCHANGED <<killVars, fileVars, errVars, codecVars, feVars, sideVars>>

\* environment: a front-end process dies or closes its end
PeerGone(c) ==
    /\ Running
    /\ connSt[c] \in {"dialed", "open"} /\ peer[c] = "alive"
    /\ peer' = [peer EXCEPT ![c] = "gone"]
    /\ UNCHANGED <<ringVars, histVars, ptyVars, accVars, connSt, sent, hPc, nmsg,
                   sessVars, runVars, ghostVars>>
    /\ UNCHANGED <<killVars, fileVars, errVars, codecVars, feVars, sideVars>>

\* environment: the kill command dials the endpoint, writes one KILL message
\* and closes its end
KillCmd(c) ==
    /\ Running /\ ~listenerClosed /\ infoFile
    /\ connSt[c] = "none"
    /\ \A d \in Conns : d < c => connSt[d] # "none"
    /\ connSt' = [connSt EXCEPT ![c] = "dialed"]
    /\ peer' = [peer EXCEPT ![c] = "gone"]
    /\ kcmd' = kcmd \cup {c}
    /\ kpend' = kpend \cup {c}
    /\ UNCHANGED <<ringVars, histVars, ptyVars, accVars, sent, hPc, nmsg,
                   sessVars, runVars, ghostVars, killRecv>>
    /\ UNCHANGED <<fileVars, errVars, codecVars, feVars, sideVars>>

Next ==
    \/ ReadPTY_Read \/ ReadPTY_EOF \/ ReadPTY_BufferWrite \/ ReadPTY_RawByte
    \/ ReadPTY_Fanout
    \/ Accept_Conn \/ Accept_Err \/ Accept_Lock \/ Accept_Reject
    \/ SendRedraw_Start \/ SendRedraw_Copy \/ SendRedraw_Send
    \/ \E c \in Conns :
        \/ Handle_ReadErr(c) \/ Handle_Data(c) \/ Handle_Resize(c)
        \/ Handle_Detach(c) \/ Handle_Kill(c) \/ Handle_History(c)
        \/ Handle_Other(c)
        \/ Dial(c) \/ PeerGone(c)
    \/ Run_ShellExited \/ Run_Signal
    \/ Cleanup_Client \/ Cleanup_Close \/ Cleanup_Reap
    \/ ShellExit

Spec == Init /\ [][Next]_vars

\* the goroutines of the session process are scheduled fairly: each one that
\* can take a step eventually takes it.  Nothing is assumed of the
\* environment (the shell, signals, front-ends, the kill command).
ReadPTY_Step ==
    ReadPTY_EOF \/ ReadPTY_BufferWrite \/ ReadPTY_RawByte \/ ReadPTY_Fanout
Accept_Step ==
    \/ Accept_Conn \/ Accept_Err \/ Accept_Lock \/ Accept_Reject
    \/ SendRedraw_Start \/ SendRedraw_Copy \/ SendRedraw_Send
\* handleClient's Decode returns once an error or a delivered KILL is there
Handle_Step(c) == Handle_ReadErr(c) \/ (c \in kpend /\ Handle_Kill(c))
Run_Step == Run_ShellExited \/ Cleanup_Client \/ Cleanup_Close \/ Cleanup_Reap

\* the session with the kill command and with the front-end traffic that
\* bears on its lifetime: the messages that only pass data along (DATA,
\* RESIZE, HISTORY_REQUEST, unknown kinds) are left out
NextLive ==
    \/ ReadPTY_Read \/ ReadPTY_EOF \/ ReadPTY_BufferWrite \/ ReadPTY_RawByte
    \/ ReadPTY_Fanout
    \/ Accept_Conn \/ Accept_Err \/ Accept_Lock \/ Accept_Reject
    \/ SendRedraw_Start \/ SendRedraw_Copy \/ SendRedraw_Send
    \/ \E c \in Conns :
        \/ Handle_ReadErr(c) \/ Handle_Detach(c) \/ Handle_Kill(c)
        \/ Dial(c) \/ PeerGone(c) \/ KillCmd(c)
    \/ Run_ShellExited \/ Run_Signal
    \/ Cleanup_Client \/ Cleanup_Close \/ Cleanup_Reap
    \/ ShellExit

SpecLive ==
    /\ Init /\ [][NextLive]_vars
    /\ WF_vars(ReadPTY_Step)
    /\ WF_vars(Accept_Step)
    /\ \A c \in Conns : WF_vars(Handle_Step(c))
    /\ WF_vars(Run_Step)

\* ------------------------------------------------ session.go: NewSession
ShellArgs == {"", "/bin/zsh"}
ShellEnvs == {"", "/bin/bash"}
RuntimeDirs == {"", "/run/user/1000"}

\* socketDir
socketDir(xdg) == IF xdg # "" THEN <<xdg, "mhist">> ELSE <<"/tmp", "mhist-uid">>

\* everything NewSession leaves alone
NS_Rest == UNCHANGED <<sessionVars, codecVars, feVars, keyVars, mouseVars>>

\* NewSession: the shell to run and the endpoint directory
NS_Args ==
    /\ nsPc = "new"
    /\ \E shell_ \in ShellArgs, env \in ShellEnvs, xdg \in RuntimeDirs :
        /\ nsShellPath' = IF shell_ # "" THEN shell_
                          ELSE IF env # "" THEN env ELSE "/bin/sh"
        /\ nsDir' = socketDir(xdg)
    /\ nsPc' = "start"
    /\ UNCHANGED <<nsPtmx, nsShell, nsKilled, nsListener, nsSock, nsInfo, nsErr>>
    /\ NS_Rest

\* NewSession: pty.Start(cmd) succeeds
NS_StartPty ==
    /\ nsPc = "start"
    /\ nsPtmx' = "open"
    /\ nsShell' = "running"
    /\ nsPc' = "mkdir"
    /\ UNCHANGED <<nsShellPath, nsDir, nsKilled, nsListener, nsSock, nsInfo, nsErr>>
    /\ NS_Rest

\* NewSession: pty.Start(cmd) fails
NS_StartPtyErr ==
    /\ nsPc = "start"
    /\ nsErr' = "start pty"
    /\ nsPc' = "failed"
    /\ UNCHANGED <<nsShellPath, nsDir, nsPtmx, nsShell, nsKilled, nsListener, nsSock,
                   nsInfo>>
    /\ NS_Rest

\* NewSession: os.MkdirAll succeeds
NS_Mkdir ==
    /\ nsPc = "mkdir"
    /\ nsPc' = "listen"
    /\ UNCHANGED <<nsShellPath, nsDir, nsPtmx, nsShell, nsKilled, nsListener, nsSock,
                   nsInfo, nsErr>>
    /\ NS_Rest

\* NewSession: os.MkdirAll fails
NS_MkdirErr ==
    /\ nsPc = "mkdir"
    /\ nsErr' = "create socket dir"
    /\ nsPc' = "undo"
    /\ UNCHANGED <<nsShellPath, nsDir, nsPtmx, nsShell, nsKilled, nsListener, nsSock,
                   nsInfo>>
    /\ NS_Rest

\* NewSession: net.Listen succeeds and creates the socket file
NS_Listen ==
    /\ nsPc = "listen"
    /\ nsListener' = "open"
    /\ nsSock' = TRUE
    /\ nsPc' = "info"
    /\ UNCHANGED <<nsShellPath, nsDir, nsPtmx, nsShell, nsKilled, nsInfo, nsErr>>
    /\ NS_Rest

\* NewSession: net.Listen fails
NS_ListenErr ==
    /\ nsPc = "listen"
    /\ nsErr' = "listen socket"
    /\ nsPc' = "undo"
    /\ UNCHANGED <<nsShellPath, nsDir, nsPtmx, nsShell, nsKilled, nsListener, nsSock,
                   nsInfo>>
    /\ NS_Rest

\* NewSession, after MkdirAll or Listen failed: ptmx.Close()
NS_UndoClose ==
    /\ nsPc = "undo"
    /\ nsPtmx' = "closed"
    /\ nsPc' = "kill"
    /\ UNCHANGED <<nsShellPath, nsDir, nsShell, nsKilled, nsListener, nsSock, nsInfo,
                   nsErr>>
    /\ NS_Rest

\* NewSession, after MkdirAll or Listen failed: cmd.Process.Kill(), return
NS_UndoKill ==
    /\ nsPc = "kill"
    /\ nsShell' = "exited"
    /\ nsKilled' = TRUE
    /\ nsPc' = "failed"
    /\ UNCHANGED <<nsShellPath, nsDir, nsPtmx, nsListener, nsSock, nsInfo, nsErr>>
    /\ NS_Rest

\* NewSession: writeInfoFile succeeds, the Session is returned
NS_WriteInfo ==
    /\ nsPc = "info"
    /\ nsInfo' = TRUE
    /\ nsPc' = "ok"
    /\ UNCHANGED <<nsShellPath, nsDir, nsPtmx, nsShell, nsKilled, nsListener, nsSock,
                   nsErr>>
    /\ NS_Rest

\* NewSession: writeInfoFile fails, with the file created or not
NS_WriteInfoErr ==
    /\ nsPc = "info"
    /\ \E created \in BOOLEAN : nsInfo' = created
    /\ nsErr' = "write info file"
    /\ nsPc' = "cleanup"
    /\ UNCHANGED <<nsShellPath, nsDir, nsPtmx, nsShell, nsKilled, nsListener, nsSock>>
    /\ NS_Rest

\* cleanup called by NewSession (no client is set): s.listener.Close(),
\* s.ptmx.Close()
NS_CleanupClose ==
    /\ nsPc = "cleanup"
    /\ nsListener' = "closed"
    /\ nsPtmx' = "closed"
    /\ nsPc' = "wait"
    /\ UNCHANGED <<nsShellPath, nsDir, nsShell, nsKilled, nsSock, nsInfo, nsErr>>
    /\ NS_Rest

\* cleanup called by NewSession: s.cmd.Wait() returns once the shell is gone
NS_CleanupWait ==
    /\ nsPc = "wait"
    /\ nsShell = "exited"
    /\ nsPc' = "remove"
    /\ UNCHANGED <<nsShellPath, nsDir, nsPtmx, nsShell, nsKilled, nsListener, nsSock,
                   nsInfo, nsErr>>
    /\ NS_Rest

\* cleanup called by NewSession: os.Remove of both files; NewSession returns
NS_CleanupRemove ==
    /\ nsPc = "remove"
    /\ nsSock' = FALSE
    /\ nsInfo' = FALSE
    /\ nsPc' = "failed"
    /\ UNCHANGED <<nsShellPath, nsDir, nsPtmx, nsShell, nsKilled, nsListener, nsErr>>
    /\ NS_Rest

\* environment: the shell exits on its own (on the hangup that closing the
\* master sends, or at any other time)
NS_ShellExit ==
    /\ nsShell = "running"
    /\ nsShell' = "exited"
    /\ UNCHANGED <<nsPc, nsShellPath, nsDir, nsPtmx, nsKilled, nsListener, nsSock,
                   nsInfo, nsErr>>
    /\ NS_Rest

NS_Step ==
    \/ NS_Args \/ NS_StartPty \/ NS_StartPtyErr \/ NS_Mkdir \/ NS_MkdirErr
    \/ NS_Listen \/ NS_ListenErr \/ NS_UndoClose \/ NS_UndoKill
    \/ NS_WriteInfo \/ NS_WriteInfoErr
    \/ NS_CleanupClose \/ NS_CleanupWait \/ NS_CleanupRemove

NextStart == NS_Step \/ NS_ShellExit

SpecStart == Init /\ [][NextStart]_vars

\* NewSession runs on whenever it can; nothing is assumed of the shell
SpecStartLive == SpecStart /\ WF_vars(NS_Step)

\* ------------------------------------- client.go: one key in relayStdin
KeyUp == <<ESC, 91, 65>>                                \* ESC [ A
KeyDown == <<ESC, 91, 66>>                              \* ESC [ B
KeyRight == <<ESC, 91, 67>>                             \* ESC [ C
PageUp == <<ESC, 91, 53, 126>>                          \* ESC [ 5 ~
PageDown == <<ESC, 91, 54, 126>>                        \* ESC [ 6 ~
WheelUp == <<ESC, 91, 60, 54, 52, 59, 49, 59, 49, 77>>  \* ESC [ < 64;1;1 M
WheelDown == <<ESC, 91, 60, 54, 53, 59, 49, 59, 49, 77>>  \* ESC [ < 65;1;1 M
ClickPress == <<ESC, 91, 60, 48, 59, 49, 59, 49, 77>>   \* ESC [ < 0;1;1 M
ClickRelease == <<ESC, 91, 60, 48, 59, 49, 59, 49, 109>>  \* ESC [ < 0;1;1 m

\* what stdin holds at buf[i:n]: single bytes and whole key sequences
KeySeqs ==
    {<<107>>, <<106>>, <<117>>, <<KeyD>>, <<113>>, <<ESC>>, <<KeyA>>, <<CtrlS>>,
     <<CtrlA>>, <<KeyS>>, <<KeyBracket>>,
     KeyUp, KeyDown, KeyRight, PageUp, PageDown,
     WheelUp, WheelDown, ClickPress, ClickRelease}
KeyRows == {0, Rows, 5}

\* one iteration of relayStdin's loop on a front-end in live or history
\* mode, with the prefix key pending or not
KeyPress ==
    /\ kKey = <<>>
    /\ \E hm \in BOOLEAN, off \in 0..MaxOffset, rows \in KeyRows, pa \in BOOLEAN,
          key \in KeySeqs :
        LET c0 == [historyMode |-> hm, historyOffset |-> IF hm THEN off ELSE 0,
                   termRows |-> rows, termCols |-> DefaultCols,
                   choosingSession |-> FALSE, deletingSession |-> FALSE,
                   detached |-> FALSE, raw |-> TRUE, conn |-> <<>>, stdout |-> <<>>]
        IN  /\ kPre' = c0
            /\ kPa' = pa
            /\ kKey' = key
            /\ kPost' = relayStdinAt(c0, pa, key, 0)
    /\ UNCHANGED <<sessionVars, codecVars, feVars, startVars, mouseVars>>

NextKeys == KeyPress

SpecKeys == Init /\ [][NextKeys]_vars

\* ------------------------------------------- mouse.go: ParseSGRMouse calls
\* the bytes between '<' and the terminator: digits, semicolons, another byte
BodyBytes == {49, 50, 59, 120}
\* twenty nines: a decimal number above math.MaxInt64
TwentyNines == [i \in 1..20 |-> 57]

\* what ParseSGRMouse is called on: a three-byte lead, a parameter text, a
\* terminator or none, and bytes behind it
MouseInputs ==
    {lead \o body \o term \o trail :
        lead \in {<<ESC, 91, 60>>, <<ESC, 91, 91>>},
        body \in SeqsOf(BodyBytes, 0, MaxBody),
        term \in {<<77>>, <<109>>, <<>>},
        trail \in {<<>>, <<120, 77>>}}
    \cup {<<ESC, 91, 60>> \o TwentyNines \o <<59, 49, 59, 49, 77>>}

\* one call of ParseSGRMouse
ParseMouse ==
    /\ mData = <<>>
    /\ \E data \in MouseInputs :
        /\ mData' = data
        /\ mRes' = ParseSGRMouse(data)
    /\ UNCHANGED <<sessionVars, codecVars, feVars, startVars, keyVars>>

NextMouse == ParseMouse

SpecMouse == Init /\ [][NextMouse]_vars

\* --------------------------------- session.go: one front-end paging history
\* a from-end request for the newest line, an absolute request for line 1,
\* and a request that is too short
ServePayloads ==
    {<<128, 0, 0, 0, 0, 0, 0, 1>>, <<0, 0, 0, 1, 0, 0, 0, 1>>, <<128, 0, 0, 0>>}

\* handleClient: the next HISTORY_REQUEST of the front-end
Serve_History(c) == \E p \in ServePayloads : Handle_HistoryReq(c, p, MaxReqs)

\* the session with one front-end that sends history requests while the
\* shell produces output
NextServe ==
    \/ ReadPTY_Read \/ ReadPTY_BufferWrite \/ ReadPTY_RawByte \/ ReadPTY_Fanout
    \/ Accept_Conn \/ Accept_Lock
    \/ SendRedraw_Start \/ SendRedraw_Copy \/ SendRedraw_Send
    \/ Dial(1) \/ PeerGone(1)
    \/ Serve_History(1) \/ Handle_ReadErr(1)

SpecServe == Init /\ [][NextServe]_vars

\* ------------------------- session.go: clientMu and a front-end that stalls
\* Here clientMu is explicit in readPTY: at "send" the reader holds it and
\* is inside s.client.Write.  A stalled peer is alive but has stopped
\* reading and its socket buffer is full: a Write to it does not return.

\* environment: the front-end on connection c stops reading its stream
PeerStalls(c) ==
    /\ Running
    /\ connSt[c] = "open" /\ peer[c] = "alive"
    /\ peer' = [peer EXCEPT ![c] = "stalled"]
    /\ UNCHANGED <<ringVars, histVars, ptyVars, accVars, connSt, sent, hPc, nmsg,
                   sessVars, runVars, ghostVars>>
    /\ UNCHANGED <<killVars, fileVars, errVars, codecVars, feVars, sideVars>>

\* conn.Write on connection c does not return
WriteBlocks(c) == connSt[c] = "open" /\ peer[c] = "stalled"

\* readPTY: s.clientMu.Lock() after the raw append loop
Stall_ReadPTY_Lock ==
    /\ Running /\ ptyPc = "raw" /\ ptyI >= Len(ptyData)
    /\ ptyPc' = "send"
    /\ UNCHANGED <<ringVars, histVars, ptyData, ptyI, ptyDone, accVars, connVars,
                   sessVars, runVars, ghostVars>>
    /\ UNCHANGED <<killVars, fileVars, errVars, codecVars, feVars, sideVars>>

\* readPTY: s.client.Write(encoded) returns, s.clientMu.Unlock()
Stall_ReadPTY_Send ==
    /\ Running /\ ptyPc = "send"
    /\ client # 0 => ~WriteBlocks(client)
    /\ sent' = IF client # 0
               THEN ConnWrite(client, Encode([Type |-> MsgData, Payload |-> ptyData]))
               ELSE sent
    /\ wfail' = IF client # 0 THEN NoteWrite(client) ELSE wfail
    /\ pwfail' = pwfail
    /\ ptyPc' = "read"
    /\ UNCHANGED <<ringVars, histVars, ptyData, ptyI, ptyDone, accVars, connSt, peer,
                   hPc, nmsg, sessVars, runVars, ghostVars>>
    /\ UNCHANGED <<killVars, fileVars, codecVars, feVars, sideVars>>

\* clientMu is free for the acceptor, a returning reader and cleanup
MuFree == ptyPc # "send"

\* acceptClients: s.clientMu.Lock() is granted, reject or register conn
Stall_Accept_Lock == MuFree /\ Accept_Lock

\* sendRedraw: conn.Write returns
Stall_SendRedraw_Send == accPc = "copy" /\ ~WriteBlocks(accConn) /\ SendRedraw_Send

\* handleClient: DETACH is read and the deferred function gets clientMu
Stall_Handle_Detach(c) ==
    /\ MuFree
    /\ Running /\ hPc[c] = "run" /\ connSt[c] = "open" /\ peer[c] # "gone"
    /\ Release(c)
    /\ UNCHANGED <<ringVars, histVars, ptyVars, accVars, peer, sent, nmsg, lastRows,
                   winsize, shell, listenerClosed, ptmxClosed, ptyIn, runVars,
                   ghostVars>>
    /\ UNCHANGED <<killVars, fileVars, errVars, codecVars, feVars, sideVars>>

\* cleanup: s.clientMu.Lock() is granted, close and clear the client
Stall_Cleanup_Client == MuFree /\ Cleanup_Client

\* the goroutines of the session
Stall_ReadPTY_Step ==
    \/ ReadPTY_EOF \/ ReadPTY_BufferWrite \/ ReadPTY_RawByte
    \/ Stall_ReadPTY_Lock \/ Stall_ReadPTY_Send
Stall_Accept_Step ==
    \/ Accept_Conn \/ Accept_Err \/ Stall_Accept_Lock \/ Accept_Reject
    \/ SendRedraw_Start \/ SendRedraw_Copy \/ Stall_SendRedraw_Send
Stall_Run_Step ==
    Run_ShellExited \/ Stall_Cleanup_Client \/ Cleanup_Close \/ Cleanup_Reap

NextStall ==
    \/ ReadPTY_Read \/ Stall_ReadPTY_Step
    \/ Stall_Accept_Step
    \/ Stall_Run_Step \/ Run_Signal
    \/ ShellExit
    \/ \E c \in Conns : Dial(c) \/ PeerStalls(c) \/ Stall_Handle_Detach(c)

\* each goroutine that can take a step eventually takes one; a front-end
\* that has read DETACH from its user gets it to the session
SpecStall == Init /\ [][NextStall]_vars

SpecStallLive ==
    /\ SpecStall
    /\ WF_vars(Stall_ReadPTY_Step)
    /\ WF_vars(Stall_Accept_Step)
    /\ WF_vars(Stall_Run_Step)

\* ------------------------------------------ reference notions for claims
RECURSIVE DecodeStream(_)
\* the messages a front-end decodes from the byte stream r; a stream that
\* does not end on a message boundary ends with the marker [Type |-> -1]
DecodeStream(r) ==
    IF Len(r) = 0 THEN <<>>
    ELSE LET d == Decode(r)
         IN  IF d.ok THEN <<d.msg>> \o DecodeStream(d.rest)
             ELSE <<[Type |-> -1, Payload |-> r]>>

RejectMsg == [Type |-> MsgData, Payload |-> RejectText]
IsRedrawMsg(m) ==
    /\ m.Type = MsgData
    /\ Len(m.Payload) >= Len(ClearHome)
    /\ SubSeq(m.Payload, 1, Len(ClearHome)) = ClearHome
LastN(S, n) == SubSeq(S, Max(1, Len(S) - n + 1), Len(S))

HasLF(S) == \E i \in 1..Len(S) : S[i] = LF
LFPos(S) == {i \in 1..Len(S) : S[i] = LF}
NumLF(S) == Cardinality(LFPos(S))
\* position of the k-th LF of S (1-based), 0 for k = 0
NthLF(S, k) ==
    IF k = 0 THEN 0
    ELSE CHOOSE i \in LFPos(S) : Cardinality({j \in LFPos(S) : j <= i}) = k
\* the k-th LF-terminated record of S (1-based), LF excluded
Record(S, k) == SubSeq(S, NthLF(S, k - 1) + 1, NthLF(S, k) - 1)
\* the bytes of S after its last LF (S itself when it has none)
TailOf(S) == SubSeq(S, NthLF(S, NumLF(S)) + 1, Len(S))

\* the line ring's lines s..(s+m-1) joined by CR LF, built from the back
RECURSIVE JoinedWindow(_, _, _)
JoinedWindow(b, s, m) ==
    IF m <= 0 THEN <<>>
    ELSE IF m = 1 THEN GetLine(b, s)
    ELSE JoinedWindow(b, s, m - 1) \o <<CR, LF>> \o GetLine(b, s + m - 1)

IsHistoryCall == hop = "history" /\ Len(harg) >= 8
ReqFromEnd == harg[1] >= 128
ReqK == (harg[1] % 128) * 16777216 + harg[2] * 65536 + harg[3] * 256 + harg[4]
ReqC == harg[5] * 16777216 + harg[6] * 65536 + harg[7] * 256 + harg[8]
RespMsg == Decode(hresp)
RespStart == Uint32(RespMsg.msg.Payload, 0)
RespTotal == Uint32(RespMsg.msg.Payload, 4)
RespData == SubSeq(RespMsg.msg.Payload, 9, Len(RespMsg.msg.Payload))

\* C5: a from-end HISTORY_REQUEST {0x80000000|k, c} is answered by one
\* HISTORY_RESPONSE whose header is start_line = max(0, total_lines - k - c)
\* and total_lines, and whose data is exactly the min(c, total_lines -
\* start_line) ring lines start_line, start_line+1, ... joined by CR LF.
C5_FromEndWindow ==
    (IsHistoryCall /\ ReqFromEnd) =>
        LET total == Lines(buffer)
            start == Max(0, total - ReqK - ReqC)
        IN  /\ RespMsg.ok /\ RespMsg.rest = <<>>
            /\ RespMsg.msg.Type = MsgHistoryResponse
            /\ RespStart = start
            /\ RespTotal = total
            /\ RespData = JoinedWindow(buffer, start, Min(ReqC, total - start))

C5_Witness ==
    /\ IsHistoryCall /\ ReqFromEnd
    /\ ReqK >= 1 /\ ReqC >= 1 /\ ReqK + ReqC <= Lines(buffer)
    /\ Len(RespData) > 0

\* C6 (as claimed): the response data ends with the current partial line,
\* preceded by CR LF if a complete line was emitted, exactly when the window
\* reaches the newest stored complete line.
C6_PartialAppended ==
    IsHistoryCall =>
        LET total == Lines(buffer)
            start == IF ReqFromEnd THEN Max(0, total - ReqK - ReqC) ELSE ReqK
            n == Max(0, Min(ReqC, total - start))
            reaches == start + n >= total
        IN  RespData =
                JoinedWindow(buffer, start, n)
                \o (IF reaches /\ Len(buffer.partial) > 0
                    THEN (IF n > 0 THEN <<CR, LF>> ELSE <<>>) \o buffer.partial
                    ELSE <<>>)

\* C8: the ring holds the last min(n, C_line) LF-terminated records of the
\* written stream, oldest first; get_line outside [0, line_count) reports
\* absence; the unterminated tail is never counted or returned as a line.
C8_LineRing ==
    LET n == NumLF(written)
        cnt == Lines(buffer)
    IN  /\ cnt = Min(n, LineCap)
        /\ \A i \in 0..(cnt - 1) : GetLine(buffer, i) = Record(written, n - cnt + i + 1)
        /\ \A i \in (-2..(LineCap + 1)) \ (0..(cnt - 1)) : GetLine(buffer, i) = Nil
        /\ Len(GetRange(buffer, 0, LineCap + 1)) = cnt

C8_Witness ==
    /\ NumLF(written) > LineCap
    /\ Len(TailOf(written)) > 0
    /\ Lines(buffer) = LineCap
    /\ GetLine(buffer, 0) # GetLine(buffer, LineCap - 1)

\* C9: a write without LF only extends the partial and leaves the lines
\* alone; a write with an LF completes the held partial as one line, which
\* is the old partial followed by the bytes before that LF.
C9_PartialCarry ==
    hop = "write" =>
        IF ~HasLF(harg)
        THEN /\ buffer.partial = hprev.partial \o harg
             /\ Lines(buffer) = Lines(hprev)
             /\ \A i \in 0..(LineCap - 1) : GetLine(buffer, i) = GetLine(hprev, i)
        ELSE LET k == NumLF(harg)
             IN  k <= LineCap =>
                    GetLine(buffer, Lines(buffer) - k) = hprev.partial \o Record(harg, 1)

C9_Witness ==
    /\ hop = "write"
    /\ Len(hprev.partial) > 0
    /\ HasLF(harg) /\ harg[1] # LF
    /\ GetLine(buffer, Lines(buffer) - NumLF(harg)) = hprev.partial \o Record(harg, 1)

\* C11: get_range(start, count) returns get_line(s), ..., get_line(e-1) in
\* order, where s = max(start, 0) and e = min(s + count, line_count()); the
\* window is empty when s >= line_count(); it never has more than count
\* lines and every line of it is a stored line, which is the record of the
\* written stream at that index.
C11_GetRange ==
    hop = "range" =>
        LET start == harg[1]
            count == harg[2]
            n == Lines(buffer)
            s == Max(start, 0)
            e == Min(s + count, n)
            first == NumLF(written) - n
        IN  /\ s >= n => hresp = <<>>
            /\ s < n => Len(hresp) = e - s
            /\ Len(hresp) <= count
            /\ \A i \in 1..Len(hresp) :
                    /\ s + i - 1 \in 0..(n - 1)
                    /\ hresp[i] = GetLine(buffer, s + i - 1)
                    /\ hresp[i] # Nil
                    /\ hresp[i] = Record(written, first + s + i)

C11_Witness ==
    /\ hop = "range"
    /\ harg[1] < 0
    /\ harg[2] > Lines(buffer)
    /\ Lines(buffer) = LineCap
    /\ Len(hresp) = LineCap
    /\ hresp[1] # hresp[LineCap]

\* C10 (as claimed): after a write whose unterminated tail t is non-empty,
\* get_partial() is exactly t, whatever partial was held before.
C10_PartialOverwritten ==
    (hop = "write" /\ Len(TailOf(harg)) > 0) => GetPartial(buffer) = TailOf(harg)

\* C10 (amended): after a write whose unterminated tail t is non-empty,
\* get_partial() is t when the write contains an LF, and is the previously
\* held partial followed by the written bytes when it contains none.
C10_PartialAfterWrite ==
    (hop = "write" /\ Len(TailOf(harg)) > 0) =>
        GetPartial(buffer) = IF HasLF(harg) THEN TailOf(harg)
                             ELSE hprev.partial \o harg

C10_Witness ==
    /\ hop = "write"
    /\ HasLF(harg) /\ Len(TailOf(harg)) > 0
    /\ Len(hprev.partial) > 0
    /\ GetPartial(buffer) = TailOf(harg)

\* ------------------------------------------------- claims on the codec
\* C12: for every kind k and payload p (the empty one included) Encode
\* yields exactly 1 + 4 + |p| octets, which are k, the big-endian 32-bit
\* length |p| and then p, and Decode of them returns {k, p}.
C12_RoundTrip ==
    rtBuf # <<>> =>
        LET n == Len(rtMsg.Payload)
        IN  /\ Len(rtBuf) = 1 + 4 + n
            /\ rtBuf[1] = rtMsg.Type
            /\ \A i \in 2..5 : rtBuf[i] \in 0..255
            /\ rtBuf[2] * 16777216 + rtBuf[3] * 65536 + rtBuf[4] * 256 + rtBuf[5] = n
            /\ SubSeq(rtBuf, 6, Len(rtBuf)) = rtMsg.Payload
            /\ rtOut.ok
            /\ rtOut.msg = rtMsg
            /\ rtOut.rest = <<>>

C12_Witness ==
    /\ rtBuf # <<>>
    /\ rtMsg.Type = MsgHistoryResponse
    /\ Len(rtMsg.Payload) = MaxPayload
    /\ rtMsg.Payload[1] # rtMsg.Payload[MaxPayload]
    /\ rtOut.ok /\ rtOut.msg = rtMsg

RECURSIVE WireLen(_)
\* octets the encodings of the messages msgs take on the wire
WireLen(msgs) ==
    IF msgs = <<>> THEN 0
    ELSE 5 + Len(Head(msgs).Payload) + WireLen(Tail(msgs))

\* C13: on a stream carrying the encodings of m_1..m_k followed by a strict
\* prefix of another encoding, the Decode calls return m_1..m_k in order and
\* nothing else, and the call after them fails; a Decode that fails has
\* returned no message.
C13_DecodeStream ==
    /\ Len(decoded) <= Len(streamMsgs)
    /\ decoded = SubSeq(streamMsgs, 1, Len(decoded))
    /\ ~decodeErr => readPos = WireLen(decoded)
    /\ decodeErr => streamEnd /\ decoded = streamMsgs
    /\ (streamEnd /\ decoded = streamMsgs) =>
            ~Decode(SubSeq(stream, WireLen(decoded) + 1, Len(stream))).ok
    /\ (Len(decoded) < Len(streamMsgs)) =>
            LET d == Decode(SubSeq(stream, WireLen(decoded) + 1, Len(stream)))
            IN  d.ok /\ d.msg = streamMsgs[Len(decoded) + 1]

C13_Witness ==
    /\ decodeErr
    /\ Len(decoded) = MaxFrames
    /\ decoded[1] # decoded[MaxFrames]
    /\ decoded = streamMsgs
    /\ Len(stream) >= WireLen(streamMsgs) + 5

\* --------------------------------------------- claims on the front-end
Live == ~cl.historyMode /\ ~cl.choosingSession /\ ~prefixActive
\* PREFIX_PENDING entered from LIVE
PrefixPending == prefixActive /\ ~cl.historyMode /\ ~cl.choosingSession
\* this step is the input relay handling the byte b
KeyStep(b) ==
    /\ stdinPc = "bytes" /\ stdinI < Len(stdinBuf) /\ stdinBuf[stdinI + 1] = b
    /\ stdinI' = stdinI + 1 \/ stdinPc' = "exit"
\* the bytes this step hands to c.conn.Write
Sent == SubSeq(cl'.conn, Len(cl.conn) + 1, Len(cl'.conn))
DetachBytes == <<MsgDetach, 0, 0, 0, 0>>
CtrlABytes == <<MsgData, 0, 0, 0, 1, CtrlA>>

\* C14: in LIVE mode the byte 0x01 sends nothing, and the 'd' read after it
\* sends exactly one DETACH and nothing else, sets detached and ends the
\* input relay, which reads no further input; the front-end then returns
\* from Run with detached still set.
C14_DetachKey ==
    /\ [][(Live /\ KeyStep(CtrlA)) => (Sent = <<>> /\ prefixActive')]_vars
    /\ [][(PrefixPending /\ KeyStep(KeyD)) =>
            /\ Sent = DetachBytes
            /\ cl'.detached
            /\ stdinPc' = "exit"
            /\ clDone']_vars
    /\ [][stdinPc = "exit" => (stdinPc' = "exit" /\ nStdin' = nStdin)]_vars
    /\ [][cl.detached => cl'.detached]_vars
    /\ (cl.detached ~> (clRunPc = "returned" /\ cl.detached /\ clConnClosed))

C14_Witness ==
    /\ nStdin = 2 /\ nWinch = 0
    /\ stdinPc = "exit"
    /\ cl.detached
    /\ clRunPc = "returned"
    /\ LastN(cl.conn, 5) = DetachBytes
    /\ Len(DecodeStream(cl.conn)) = 2

\* C15: a Ctrl-A read in LIVE mode sends nothing and arms the prefix; a DATA
\* message carrying 0x01 is sent only for a Ctrl-A read while the prefix is
\* armed; from PREFIX_PENDING that Ctrl-A sends exactly one DATA message
\* with payload [0x01] and leaves the front-end in LIVE mode.
C15_LiteralCtrlA ==
    /\ [][(Live /\ KeyStep(CtrlA)) =>
            (Sent = <<>> /\ prefixActive' /\ ~cl'.historyMode
             /\ cl'.stdout = cl.stdout)]_vars
    /\ [][(\E i \in 1..Len(DecodeStream(Sent)) :
                /\ DecodeStream(Sent)[i].Type = MsgData
                /\ \E j \in 1..Len(DecodeStream(Sent)[i].Payload) :
                        DecodeStream(Sent)[i].Payload[j] = CtrlA)
            => (prefixActive /\ KeyStep(CtrlA))]_vars
    /\ [][(PrefixPending /\ KeyStep(CtrlA)) =>
            /\ Sent = CtrlABytes
            /\ ~cl'.historyMode /\ ~cl'.choosingSession /\ ~prefixActive'
            /\ stdinPc' # "exit"]_vars

C15_Witness ==
    /\ nStdin = 2 /\ nWinch = 0
    /\ Live
    /\ stdinPc = "select"
    /\ LastN(cl.conn, 6) = CtrlABytes
    /\ Len(DecodeStream(cl.conn)) = 2

\* C16 (as claimed): the output relay writes a DATA payload to the terminal
\* only when the front-end is in LIVE mode, so never in HISTORY mode and
\* never while a Ctrl-A is pending.
C16_WriteOnlyLive ==
    [][(sockPc = "write" /\ sockPc' # "write") => Live]_vars

\* C16 (amended): the output relay writes a DATA payload exactly when, at
\* the moment it examines the message, the front-end is neither in HISTORY
\* mode nor showing the session picker; a pending Ctrl-A does not suppress
\* the write; nothing else puts DATA on the terminal.
C16_WriteUnlessHistory ==
    /\ [][(sockPc = "switch" /\ sockPc' # "switch" /\ sockMsg.Type = MsgData) =>
            (sockPc' = "write" <=> (~cl.historyMode /\ ~cl.choosingSession))]_vars
    /\ [][(sockPc' = "write") => (sockPc = "write" \/
            (sockPc = "switch" /\ sockMsg.Type = MsgData /\ sockMsg' = sockMsg))]_vars
    /\ [][(sockPc = "write" /\ sockPc' # "write") =>
            cl'.stdout = Append(cl.stdout, [kind |-> "data",
                                            payload |-> sockMsg.Payload,
                                            indicator |-> FALSE])]_vars
    /\ [][(Len(cl'.stdout) > Len(cl.stdout)
           /\ cl'.stdout[Len(cl'.stdout)].kind = "data") => sockPc = "write"]_vars

C16_Witness ==
    /\ nStdin = 1
    /\ prefixActive /\ ~cl.historyMode /\ ~cl.choosingSession
    /\ sockPc = "decode"
    /\ Len(cl.stdout) = 1
    /\ cl.stdout[1].kind = "data"

\* ----------------------------------------------- claims on the session
\* the state after a completed shutdown
ShutDown ==
    /\ runPc = "exited"
    /\ listenerClosed /\ ptmxClosed
    /\ shell = "exited"
    /\ ~sockFile /\ ~infoFile

\* C17: the step in which a reader receives KILL kills the shell, and from
\* then on the session eventually shuts down: Run leaves its select and
\* cleanup runs to completion.
C17_KillShutsDown ==
    /\ [][(~killRecv /\ killRecv') => shell' = "exited"]_vars
    /\ (killRecv ~> ShutDown)

\* the same, in the behaviours where the redraw of a later connection does
\* not crash the process
C17_KillShutsDownUnlessCrash ==
    /\ [][(~killRecv /\ killRecv') => shell' = "exited"]_vars
    /\ (killRecv ~> (ShutDown \/ accPc = "panic"))

ReaderExits(c) == hPc[c] = "run" /\ hPc'[c] = "exited"

\* C20: the step in which a reader returns (on DETACH, or on a read error
\* after the stream closed) closes its connection and leaves the slot
\* without that connection, empty if the connection held it; unless the
\* step is the receipt of KILL it touches neither the shell, nor the PTY
\* reader, nor the scrollback and replay rings, nor the main loop or the
\* acceptor.  A returned reader's connection never occupies the slot, the
\* acceptor rejects a connection only while the slot holds another
\* connection whose reader has not returned, registers it whenever the
\* slot is empty, and stops accepting only once the listener is closed.
C20_DetachFreesSlot ==
    /\ [][\A c \in Conns : ReaderExits(c) =>
            /\ connSt'[c] = "closed"
            /\ client' # c
            /\ client = c => client' = 0
            /\ client # c => client' = client
            /\ killRecv' = killRecv =>
                    /\ shell' = shell
                    /\ UNCHANGED <<ringVars, ptyVars, accVars, runVars>>
                    /\ UNCHANGED <<listenerClosed, ptmxClosed>>]_vars
    /\ [](\A c \in Conns : hPc[c] = "exited" => (client # c /\ connSt[c] = "closed"))
    /\ [][(accPc = "lock" /\ accPc' # "lock") =>
            IF client = 0
            THEN client' = accConn /\ accPc' = "redraw" /\ rejected' = rejected
            ELSE /\ accPc' = "reject" /\ client' = client
                 /\ client # accConn /\ hPc[client] # "exited"]_vars
    /\ [](accPc = "exit" => listenerClosed)

\* the first front-end sent DETACH and its reader returned; the second
\* connection, examined by the acceptor afterwards, holds the slot and has
\* its reader, while the shell and the main loop run on
C20_Witness ==
    /\ hPc[1] = "exited" /\ connSt[1] = "closed" /\ peer[1] = "alive"
    /\ nmsg = 1 /\ ~killRecv /\ kcmd = {}
    /\ client = 2 /\ hPc[2] = "run" /\ connSt[2] = "open"
    /\ rejected = {}
    /\ shell = "running" /\ runPc = "wait"
    /\ Len(written) > 0

\* C18: once the kill command has connected, written its KILL message and
\* closed, the session eventually kills its shell and shuts down, whatever
\* the state of the active-front-end slot.  Behaviours in which the process
\* crashes in sendRedraw are left aside here (they are C17's), so a
\* violation is a session that keeps running after the kill command.
C18_KillCommand ==
    (kcmd # {}) ~> (ShutDown \/ accPc = "panic")


C2_AtMostOneFrontEnd ==
    /\ [](\A c \in Conns : (hPc[c] = "run" /\ connSt[c] = "open") => client = c)
    /\ [][(client' # client /\ client' # 0) => client = 0]_vars
    /\ [][(ptyPc = "raw" /\ ptyPc' = "read") =>
            \A c \in Conns : sent'[c] # sent[c] => c = client]_vars

C2_Witness ==
    /\ client # 0 /\ hPc[client] = "run" /\ connSt[client] = "open"
    /\ \E m \in 1..Len(DecodeStream(sent[client])) :
            ~IsRedrawMsg(DecodeStream(sent[client])[m])
    /\ \E d \in Conns \ {client} : hPc[d] = "exited" /\ Len(sent[d]) > 0

\* C3 (as claimed): a newly attached front-end receives, before any live
\* DATA message, exactly one DATA message ESC[2J ESC[H B, where B (at most
\* C_raw bytes) is what the PTY had produced when it attached, and no such
\* message when the ring was empty, under every interleaving of the acceptor
\* with the PTY reader.
C3_RedrawBeforeLive ==
    \A c \in Conns :
        (c \notin rejected /\ Len(written) <= RawCap) =>
            LET msgs == DecodeStream(sent[c])
            IN  IF accConn = c /\ accPc \in {"redraw", "copy"}
                THEN msgs = <<>>
                ELSE IF attachB[c] = <<>>
                THEN \A i \in 1..Len(msgs) : ~IsRedrawMsg(msgs[i])
                ELSE msgs # <<>> =>
                        /\ msgs[1] = [Type |-> MsgData,
                                      Payload |-> ClearHome \o attachB[c]]
                        /\ \A i \in 2..Len(msgs) : ~IsRedrawMsg(msgs[i])

\* C4 (as claimed): when the acceptor finds the slot held by a connection
\* whose peer is gone, the new connection takes over the slot.
C4_DeadClientTakeover ==
    [][(accPc = "lock" /\ accPc' # "lock" /\ client # 0 /\ peer[client] = "gone") =>
            client' = accConn]_vars

\* C7: the raw replay ring holds the last min(|S|, C_raw) bytes of the PTY
\* stream S in order, the redraw replays exactly them, rawLen = min(|S|,
\* C_raw) and 0 <= rawHead < C_raw.
C7_RawRing ==
    /\ rawLen = Min(Len(written), RawCap)
    /\ rawHead \in 0..(RawCap - 1)
    /\ Snapshot(Ring) = LastN(written, RawCap)
    /\ hop = "redraw" =>
          IF Len(written) = 0 THEN hresp = <<>>
          ELSE DecodeStream(hresp) =
                  <<[Type |-> MsgData, Payload |-> ClearHome \o LastN(written, RawCap)]>>

C7_Witness ==
    /\ hop = "redraw"
    /\ Len(written) > RawCap
    /\ rawHead # 0
    /\ Decode(hresp).msg.Payload = ClearHome \o LastN(written, RawCap)

\* ------------------------------------------ claims on the error handling
\* connection c has been dropped as DETACH drops it
Dropped(c) == hPc[c] = "exited" /\ connSt[c] = "closed" /\ client # c

Handle_Malformed(c) ==
    \/ \E p \in ResizePayloads : Len(p) < 4 /\ Handle_ResizeMsg(c, p)
    \/ \E p \in SessHistoryPayloads : Len(p) < 8 /\ Handle_HistoryMsg(c, p)
    \/ Handle_Other(c)

\* C23: a RESIZE payload shorter than 4 octets, a HISTORY_REQUEST payload
\* shorter than 8 octets, a HISTORY_RESPONSE or a message of an unknown kind
\* received from the front-end changes nothing of the session: the PTY size,
\* last_known_rows, the scrollback and the replay ring, the slot and the
\* PTY input stay as they are, nothing is written to any connection, the
\* connection stays open with its reader running, and the session is not
\* stopped.
C23_MalformedIgnored ==
    [][\A c \in Conns : Handle_Malformed(c) =>
            /\ UNCHANGED <<winsize, lastRows, buffer, rawBuf, rawHead, rawLen>>
            /\ UNCHANGED <<client, sent, connSt, peer, ptyIn>>
            /\ hPc'[c] = "run" /\ connSt'[c] = "open"
            /\ UNCHANGED <<runPc, shell, listenerClosed, ptmxClosed, ptyVars, accVars>>
            /\ UNCHANGED <<killVars, errVars>>]_vars

\* the attached front-end has sent its one message, and it was one of the
\* ignored ones: no size was set, nothing reached the PTY, no response was
\* written and the front-end is still attached
C23_Witness ==
    \E c \in Conns :
        /\ client = c /\ hPc[c] = "run" /\ connSt[c] = "open" /\ peer[c] = "alive"
        /\ nmsg = 1 /\ kcmd = {} /\ wfail = {} /\ ~pwfail
        /\ lastRows = 0 /\ winsize = <<0, 0>> /\ ptyIn = <<>>
        /\ \A i \in 1..Len(DecodeStream(sent[c])) :
                DecodeStream(sent[c])[i].Type = MsgData
        /\ shell = "running" /\ runPc = "wait" /\ ~ptmxClosed
        /\ written # <<>>

\* ------------------------------------------- claims on the session start
\* everything NewSession had set up is undone
StartUndone ==
    /\ nsPtmx # "open" /\ nsShell # "running"
    /\ nsListener # "open" /\ ~nsSock /\ ~nsInfo

\* C24: when the start of a session fails at any step, NewSession returns
\* the error, and by then the PTY master is closed, the child shell is gone,
\* the listener is closed and neither the socket file nor the metadata file
\* exists.
C24_StartFailureUndone ==
    /\ [](nsPc = "failed" => (nsErr # "" /\ StartUndone))
    /\ (nsErr # "") ~> (nsPc = "failed")

\* ---------------------------------------- claims on the front-end's end
\* C25: Run returns with the connection closed and the terminal restored;
\* detached becomes true only in the step that sends DETACH, and once the
\* output relay has found the stream ended or failed with detached false,
\* detached stays false.
C25_DetachVerdict ==
    /\ [](clRunPc = "returned" => (clConnClosed /\ ~cl.raw))
    /\ [][(~cl.detached /\ cl'.detached) =>
            cl'.conn = cl.conn \o Encode([Type |-> MsgDetach, Payload |-> <<>>])]_vars
    /\ [][(sockPc = "exit" /\ ~cl.detached) => ~cl'.detached]_vars

\* -------------------------------------------- claims on the live stream
\* a live DATA message: a DATA message that is neither the redraw nor the
\* rejection notice
IsLiveMsg(m) == m.Type = MsgData /\ ~IsRedrawMsg(m) /\ m # RejectMsg

RECURSIVE LiveMsgs(_)
\* the live DATA messages among msgs
LiveMsgs(msgs) ==
    IF Len(msgs) = 0 THEN <<>>
    ELSE (IF IsLiveMsg(Head(msgs)) THEN <<Head(msgs)>> ELSE <<>>)
         \o LiveMsgs(Tail(msgs))

RECURSIVE Payloads(_)
\* the payloads of msgs, concatenated in order
Payloads(msgs) ==
    IF Len(msgs) = 0 THEN <<>> ELSE Head(msgs).Payload \o Payloads(Tail(msgs))

\* the live bytes connection c has been sent
LiveBytes(c) == Payloads(LiveMsgs(DecodeStream(sent[c])))

\* the PTY bytes of the chunks readPTY has gone through completely
Fanned == IF ptyPc = "raw" THEN SubSeq(written, 1, Len(written) - Len(ptyData))
          ELSE written

\* x is a run of consecutive elements of w
IsRun(x, w) ==
    \E i \in 0..(Len(w) - Len(x)) : SubSeq(w, i + 1, i + Len(x)) = x

\* live, the live bytes of connection c, are a run of the PTY bytes, and the
\* latest of the forwarded ones while c holds the slot
LiveIsRun(c, live) ==
    /\ IsRun(live, written)
    /\ (client = c /\ connSt[c] = "open") => live = LastN(Fanned, Len(live))

\* C26: the payloads of the live DATA messages sent to one front-end,
\* concatenated in sending order, are a run of consecutive bytes read from
\* the PTY.  Every chunk readPTY has read is framed as exactly one DATA
\* message to the front-end that holds the slot when the chunk is forwarded;
\* while a front-end holds the slot its live bytes are the PTY bytes from
\* some point up to the last chunk forwarded, with no gap and no reordering;
\* whatever else is written to a connection is a whole message that is not
\* a live DATA message.
C26_LiveRun ==
    /\ [](\A c \in Conns : sent[c] # <<>> => LiveIsRun(c, LiveBytes(c)))
    /\ [](ptyPc = "raw" => LastN(written, Len(ptyData)) = ptyData)
    /\ [][(ptyPc = "raw" /\ ptyPc' = "read") =>
            sent' = IF client # 0 /\ connSt[client] = "open"
                    THEN [sent EXCEPT ![client] =
                            @ \o Encode([Type |-> MsgData, Payload |-> ptyData])]
                    ELSE sent]_vars
    /\ [][\A c \in Conns : sent'[c] # sent[c] =>
            \/ ptyPc = "raw" /\ ptyPc' = "read" /\ client = c
            \/ LET d == Decode(SubSeq(sent'[c], Len(sent[c]) + 1, Len(sent'[c])))
               IN  d.ok /\ d.rest = <<>> /\ ~IsLiveMsg(d.msg)]_vars

\* the attached front-end has been sent every PTY byte, two chunks as two
\* live DATA messages
C26_Witness ==
    \E c \in Conns :
        /\ client = c /\ connSt[c] = "open"
        /\ Len(LiveMsgs(DecodeStream(sent[c]))) = 2
        /\ LiveBytes(c) = written
        /\ Len(written) = 2

\* every message of msgs is a whole message of a kind the session sends
WholeMsgs(msgs) ==
    \A i \in 1..Len(msgs) : msgs[i].Type \in {MsgData, MsgHistoryResponse}

RECURSIVE ChunkCuts(_)
\* the lengths of the prefixes of w that end where a PTY chunk ends
ChunkCuts(w) ==
    {0} \cup UNION {{Len(ch) + k : k \in ChunkCuts(SubSeq(w, Len(ch) + 1, Len(w)))} :
                    ch \in {x \in PtyChunks :
                              Len(x) <= Len(w) /\ SubSeq(w, 1, Len(x)) = x}}

\* C28: the redraw snapshot is never torn: sendRedraw never fails in its
\* copy, and the content it has extracted when it is about to send equals
\* the content of the replay ring after some whole number of PTY chunks.
C28_NoTornSnapshot ==
    /\ accPc # "panic"
    /\ (accPc = "copy" /\ accI >= rawLen) =>
            \E k \in ChunkCuts(written) :
                accRaw = LastN(SubSeq(written, 1, k), RawCap)

\* ------------------------------------------ claims on the history keys
\* the scroll keys of the history mode
ScrollUpKeys == {<<107>>, KeyUp, WheelUp}
ScrollDownKeys == {<<106>>, KeyDown, WheelDown}
ScrollKeys ==
    ScrollUpKeys \cup ScrollDownKeys \cup {<<117>>, <<KeyD>>, PageUp, PageDown}

\* what the key adds to the history offset
ScrollDelta(key, rows) ==
    CASE key \in ScrollUpKeys -> scrollLines
      [] key \in ScrollDownKeys -> 0 - scrollLines
      [] key = <<117>> -> rows \div 2
      [] key = <<KeyD>> -> 0 - (rows \div 2)
      [] key = PageUp -> rows
      [] key = PageDown -> 0 - rows

\* the history request for offset off from the end, as c's only message
OnlyRequest(c, off) ==
    Encode([Type |-> MsgHistoryRequest, Payload |-> FromEndPayload(c, off)])

\* C29: in the history mode, with no prefix key pending, k, arrow-up and
\* wheel-up add SCROLL_STEP to the offset, j, arrow-down and wheel-down
\* subtract it, u and d add and subtract half the rows, PageUp and PageDown
\* the rows; the key is consumed whole; after an addition a request with the
\* new offset is sent; after a subtraction the front-end leaves the history
\* mode if the new offset is <= 0 and otherwise sends a request with it.
C29_ScrollKeys ==
    (kPre.historyMode /\ ~kPa /\ kKey \in ScrollKeys) =>
        LET new == kPre.historyOffset + ScrollDelta(kKey, kPre.termRows)
            adds == kKey \in ScrollUpKeys \cup {<<117>>, PageUp}
        IN  /\ kPost.n = Len(kKey) /\ ~kPost.ret /\ ~kPost.pa
            /\ IF adds \/ new > 0
               THEN /\ kPost.c.historyMode
                    /\ kPost.c.historyOffset = new
                    /\ kPost.c.conn = OnlyRequest(kPre, new)
               ELSE ~kPost.c.historyMode

\* wheel-down at offset 5 leaves offset 2 and asks for it; PageDown would
\* have left the history mode
C29_Witness ==
    /\ kPre.historyMode /\ ~kPa /\ kKey = WheelDown
    /\ kPre.historyOffset = 5 /\ kPre.termRows = 5
    /\ kPost.c.historyOffset = 2 /\ kPost.c.historyMode

\* a DATA message is among the bytes c has written to the connection
SendsData(c) ==
    \E i \in 1..Len(DecodeStream(c.conn)) : DecodeStream(c.conn)[i].Type = MsgData

Requests(c) ==
    SelectSeq(DecodeStream(c.conn), LAMBDA m : m.Type = MsgHistoryRequest)

\* the count a request carries: the rows, or 24 when there are none
CountOf(rows) == IF rows <= 0 THEN DefaultRows ELSE rows

\* C31: whenever one iteration of the input loop takes the front-end out of
\* the history mode, the offset is 0 afterwards and exactly one
\* HISTORY_REQUEST was sent, with offset field 0x80000000 and count = rows
\* (24 when rows <= 0).
C31_ExitHistory ==
    (kPre.historyMode /\ ~kPost.c.historyMode) =>
        /\ kPost.c.historyOffset = 0
        /\ Requests(kPost.c) =
              << [Type |-> MsgHistoryRequest,
                  Payload |-> <<128, 0, 0, 0, 0, 0, 0, CountOf(kPre.termRows)>>] >>

\* q leaves the history mode on a terminal that reports no rows: count 24
C31_Witness ==
    /\ kPre.historyMode /\ kPre.historyOffset = 5 /\ kPre.termRows = 0
    /\ kKey = <<113>> /\ ~kPa
    /\ ~kPost.c.historyMode
    /\ kPost.c.conn = <<MsgHistoryRequest, 0, 0, 0, 8, 128, 0, 0, 0, 0, 0, 0, 24>>

C33_LiveForward ==
    (~kPre.historyMode /\ ~kPa /\ kKey # <<>>
        /\ kKey[1] \notin {CtrlA, CtrlS} /\ kKey \notin {WheelUp, PageUp}) =>
            /\ kPost.n = 1
            /\ kPost.c = ClientSend(kPre, MsgData, <<kKey[1]>>)

OffsetOk(c) == c.historyOffset >= 0 /\ (c.historyOffset = 0 <=> ~c.historyMode)

\* C35 (as claimed): a front-end whose offset is >= 0, and 0 exactly when it
\* is not in the history mode, is so again after one more key or mouse event,
\* whatever rows the terminal has reported.
C35_OffsetInvariant ==
    (kKey # <<>> /\ OffsetOk(kPre)) => OffsetOk(kPost.c)

\* ------------------------------------------- claims on the mouse parser
\* the index of the first M or m of data, 0 when there is none
FirstTerm(data) ==
    LET ts == {i \in 1..Len(data) : data[i] \in {77, 109}}
    IN  IF ts = {} THEN 0 ELSE CHOOSE i \in ts : \A j \in ts : i <= j

\* s is one or more decimal digits
IsDecimal(s) == Len(s) > 0 /\ \A i \in 1..Len(s) : s[i] \in 48..57

\* data begins with ESC [ <, three decimal parameters separated by two
\* semicolons, and M or m; p1, p2, p3 are the parameters
WellFormed(data) ==
    /\ Len(data) >= 4 /\ SubSeq(data, 1, 3) = <<ESC, 91, 60>>
    /\ FirstTerm(data) > 4
    /\ LET text == SubSeq(data, 4, FirstTerm(data) - 1)
       IN  \E a, b \in 1..Len(text) :
            /\ a < b /\ text[a] = 59 /\ text[b] = 59
            /\ IsDecimal(SubSeq(text, 1, a - 1))
            /\ IsDecimal(SubSeq(text, a + 1, b - 1))
            /\ IsDecimal(SubSeq(text, b + 1, Len(text)))

\* the three parameters of a well-formed report
ParamsOf(data) ==
    LET text == SubSeq(data, 4, FirstTerm(data) - 1)
        a == CHOOSE i \in 1..Len(text) : text[i] = 59 /\ \A j \in 1..(i - 1) : text[j] # 59
        b == CHOOSE i \in (a + 1)..Len(text) : text[i] = 59
    IN  <<SubSeq(text, 1, a - 1), SubSeq(text, a + 1, b - 1),
          SubSeq(text, b + 1, Len(text))>>

RECURSIVE DecVal(_, _)
\* the number the digits s denote, read from the left onto acc
DecVal(s, acc) ==
    IF s = <<>> THEN acc ELSE DecVal(Tail(s), acc * 10 + (Head(s) - 48))

\* what a successful parse returns for a well-formed report
ParsedAs(data, res) ==
    /\ res.ev.Button = DecVal(ParamsOf(data)[1], 0)
    /\ res.ev.Col = DecVal(ParamsOf(data)[2], 0)
    /\ res.ev.Row = DecVal(ParamsOf(data)[3], 0)
    /\ res.ev.Press = (data[FirstTerm(data)] = 77)
    /\ res.consumed = FirstTerm(data)

\* C36 (as claimed): ParseSGRMouse succeeds exactly on the well-formed
\* reports, and then returns the three numbers, Press and the bytes up to
\* and including the terminator.
C36_ParseExact ==
    mData # <<>> =>
        /\ mRes.ok <=> WellFormed(mData)
        /\ mRes.ok => ParsedAs(mData, mRes)

\* C36 (amended): ParseSGRMouse succeeds exactly on the well-formed reports
\* whose three parameters are each at most math.MaxInt64, and then returns
\* the three numbers, Press = (terminator is M) and consumed = index of the
\* terminator + 1; on every other input it fails and consumes nothing.
C36_ParseExactInRange ==
    mData # <<>> =>
        /\ mRes.ok <=> (WellFormed(mData)
                        /\ \A n \in 1..3 : ~AtoiErr(ParamsOf(mData)[n]))
        /\ mRes.ok => ParsedAs(mData, mRes)
        /\ ~mRes.ok => mRes.consumed = 0

\* ESC [ < 12;1;2 m x M: a release of button 12, seven bytes of parameters
\* and terminator consumed after the lead, the bytes behind left alone
C36_Witness ==
    /\ mData = <<ESC, 91, 60, 49, 50, 59, 49, 59, 50, 109, 120, 77>>
    /\ mRes = [ok |-> TRUE, consumed |-> 10,
               ev |-> [Button |-> 12, Col |-> 1, Row |-> 2, Press |-> FALSE]]

\* ------------------------------------------ claims on the attach stream
\* the positions of the redraw messages among msgs
RedrawAt(msgs) == {i \in 1..Len(msgs) : IsRedrawMsg(msgs[i])}

\* the PTY bytes of the redraw at position r of msgs, then the payloads of
\* the live DATA messages behind it
AttachBytes(msgs, r) ==
    SubSeq(msgs[r].Payload, Len(ClearHome) + 1, Len(msgs[r].Payload))
        \o Payloads(LiveMsgs(SubSeq(msgs, r + 1, Len(msgs))))

\* C37 (as claimed): for every front-end that was sent a redraw, the PTY
\* bytes of the redraw followed by the payloads of the live DATA messages
\* sent after it are a run of consecutive bytes of the PTY stream.
C37_AttachRun ==
    \A c \in Conns :
        sent[c] # <<>> =>
            \A r \in RedrawAt(DecodeStream(sent[c])) :
                IsRun(AttachBytes(DecodeStream(sent[c]), r), written)

\* ------------------------------------------ claims on the history service
\* the HISTORY_RESPONSE messages among msgs
Responses(msgs) == SelectSeq(msgs, LAMBDA m : m.Type = MsgHistoryResponse)

C39_NoLateFrontEnd ==
    /\ runPc \in {"close", "reap", "exited"} => client = 0
    /\ runPc = "exited" => \A c \in Conns : connSt[c] # "open"

\* ------------------------------------------ claims on a stalled front-end
\* C40 (as claimed): whatever the attached front-end does, while the
\* session runs the PTY reader always comes back from forwarding a chunk to
\* read the PTY again, and the acceptor always gets clientMu.
C40_NoStall ==
    /\ (ptyPc = "send") ~> (ptyPc # "send" \/ ~Running)
    /\ (accPc = "lock") ~> (accPc # "lock" \/ ~Running)

====
